---- MODULE Spec2Model ----
(***************************************************************************)
(* Model of the input-file registry of ifsbench (src/ifsbench/benchmark.py):*)
(* the InputFile value type and the ExperimentFiles registry.               *)
(*                                                                         *)
(* Paths are sequences of path segments.  An absolute path is the sequence *)
(* of its segments below "/", so "/" itself is <<>>.  A relative path is   *)
(* the sequence of its segments and "." is <<>>.  Strings produced by      *)
(* str(Path) are sequences of tokens in which "/" is a token of its own.   *)
(* Python's None is the string "None" for a checksum and -1 for a size.    *)
(* Exceptions are named by their Python type; "none" is a normal return.   *)
(***************************************************************************)
EXTENDS Integers, Sequences, FiniteSets, TLC

VARIABLES exp_id, src_dir, files, call, fa, fb, fcall, tfs, tcall, rcall,
          fc, lrun, heap

regvars == <<exp_id, src_dir, files, call>>
filevars == <<fa, fb, fcall>>
tarvars == <<tfs, tcall>>
rulevars == <<rcall>>
othervars == <<fc, lrun, heap>>
vars == <<exp_id, src_dir, files, call, fa, fb, fcall, tfs, tcall, rcall, fc, lrun, heap>>

(***************************************************************************)
(* The file system the program runs against.                               *)
(***************************************************************************)
None == "None"
NoSize == 0 - 1

RootDir == <<>>
DirA == <<"A">>
DirB == <<"B">>

\* content checksum and size of every regular file on disk
Disk ==
  [p \in {<<"A", "x">>, <<"B", "x">>, <<"B", "s", "x">>, <<"A", "ifsdata", "z">>} |->
     CASE p = <<"A", "x">> -> [sum |-> "c1", size |-> 0]
       [] p = <<"B", "x">> -> [sum |-> "c1", size |-> 0]
       [] p = <<"B", "s", "x">> -> [sum |-> "c2", size |-> 1]
       [] p = <<"A", "ifsdata", "z">> -> [sum |-> "c3", size |-> 2]]

DiskPaths == DOMAIN Disk

(***************************************************************************)
(* pathlib                                                                 *)
(***************************************************************************)
\* str(p) of an absolute path
AbsStr(p) ==
  IF p = <<>> THEN <<"/">>
  ELSE [i \in 1..(2 * Len(p)) |-> IF i % 2 = 1 THEN "/" ELSE p[i \div 2]]

\* str(p) of a relative path
RelStr(p) ==
  IF p = <<>> THEN <<".">>
  ELSE [i \in 1..(2 * Len(p) - 1) |-> IF i % 2 = 1 THEN p[(i + 1) \div 2] ELSE "/"]

IsSegment(t) == t \notin {"/", "."}

\* Path(s) of the string of an absolute path
ParsePath(s) == SelectSeq(s, IsSegment)

\* p is base or lies below base
IsUnder(p, base) ==
  /\ Len(base) <= Len(p)
  /\ SubSeq(p, 1, Len(base)) = base

\* p lies strictly below base
IsStrictlyUnder(p, base) == IsUnder(p, base) /\ Len(base) < Len(p)

\* relative_to without its check
RelativeToUnchecked(p, base) ==
  [err |-> "none", rel |-> SubSeq(p, Len(base) + 1, Len(p))]

\* Path.relative_to: ValueError unless p is base or below it
RelativeTo(p, base) ==
  IF IsUnder(p, base)
  THEN [err |-> "none", rel |-> SubSeq(p, Len(base) + 1, Len(p))]
  ELSE [err |-> "ValueError", rel |-> <<>>]

\* Path.name
PathName(p) == IF p = <<>> THEN "" ELSE p[Len(p)]

(***************************************************************************)
(* InputFile                                                               *)
(***************************************************************************)
MkFile(sd, rel, sum, size) ==
  [src_dir |-> sd, path |-> rel, checksum |-> sum, size |-> size]

\* InputFile.fullpath
FullPath(f) == f.src_dir \o f.path

\* truth value of a checksum: None is false
HasChecksum(f) == f.checksum # None

\* _sha256sum and _size: the external sha256sum fails on anything that is
\* not a regular file
Sha256sum(p) ==
  IF p \in DiskPaths
  THEN [err |-> "none", sum |-> Disk[p].sum, size |-> Disk[p].size]
  ELSE [err |-> "ExecuteError", sum |-> None, size |-> NoSize]

\* InputFile.__init__: the outcome [err, obj], obj a set of at most one file
InputFile(path, sd, compute_metadata) ==
  LET r == RelativeTo(path, sd)
      m == Sha256sum(sd \o r.rel)
  IN IF r.err # "none" THEN [err |-> r.err, obj |-> {}]
     ELSE IF compute_metadata
          THEN IF m.err # "none" THEN [err |-> m.err, obj |-> {}]
               ELSE [err |-> "none", obj |-> {MkFile(sd, r.rel, m.sum, m.size)}]
          ELSE [err |-> "none", obj |-> {MkFile(sd, r.rel, None, NoSize)}]

\* InputFile.__hash__: hash(self.checksum or self.fullpath); hash is taken
\* to be injective on its keys
FileHash(f) ==
  IF HasChecksum(f) THEN <<"str", <<f.checksum>>>> ELSE <<"path", FullPath(f)>>

\* an __eq__ that asks for the same checksum and the same path
FileEqWithPath(a, b) ==
  FullPath(a) = FullPath(b) /\ a.checksum = b.checksum

\* InputFile.__eq__
FileEq(a, b) ==
  IF ~HasChecksum(a) \/ ~HasChecksum(b)
  THEN FullPath(a) = FullPath(b)
  ELSE a.checksum = b.checksum

\* InputFile.to_dict: a dict is a sequence of <<key, value>> pairs in
\* insertion order; a meta dict is a record holding only the keys present
FileToDict(f) ==
  LET d0 == [fullpath |-> AbsStr(FullPath(f))]
      d1 == IF HasChecksum(f) THEN d0 @@ [sha256sum |-> f.checksum] ELSE d0
      d2 == IF f.size # NoSize /\ f.size # 0 THEN d1 @@ [size |-> f.size] ELSE d1
  IN << <<RelStr(f.path), d2>> >>

\* dict.get
MetaSum(meta) == IF "sha256sum" \in DOMAIN meta THEN meta.sha256sum ELSE None
MetaSize(meta) == IF "size" \in DOMAIN meta THEN meta.size ELSE NoSize

\* from_dict without its assertion: the entry popped is decoded, the others
\* are ignored
FileFromDictNoAssert(data, sd, verify_checksum) ==
  IF Len(data) = 0 THEN [err |-> "KeyError", obj |-> {}]
  ELSE LET meta == data[Len(data)][2]
           r == InputFile(ParsePath(meta.fullpath), sd, FALSE)
       IN IF r.err # "none" THEN r
          ELSE [err |-> "none",
                obj |-> {MkFile(o.src_dir, o.path, MetaSum(meta), MetaSize(meta)) : o \in r.obj}]

\* InputFile.from_dict; sd is a path
FileFromDict(data, sd, verify_checksum) ==
  IF Len(data) = 0 THEN [err |-> "KeyError", obj |-> {}]
  ELSE IF Len(data) > 1 THEN [err |-> "AssertionError", obj |-> {}]
  ELSE LET meta == data[1][2]
           r == InputFile(ParsePath(meta.fullpath), sd, verify_checksum)
       IN IF r.err # "none" THEN r
          ELSE IF verify_checksum
               THEN IF "sha256sum" \notin DOMAIN meta THEN [err |-> "KeyError", obj |-> {}]
                    ELSE IF \E o \in r.obj : meta.sha256sum # o.checksum
                         THEN [err |-> "ValueError", obj |-> {}]
                         ELSE r
               ELSE [err |-> "none",
                     obj |-> {MkFile(o.src_dir, o.path, MetaSum(meta), MetaSize(meta)) : o \in r.obj}]

(***************************************************************************)
(* ExperimentFiles                                                         *)
(***************************************************************************)
\* set.add with InputFile.__hash__ and InputFile.__eq__: an element that has
\* the hash of f and is equal to f keeps its place
SetAdd(s, f) ==
  IF \E g \in s : FileHash(g) = FileHash(f) /\ FileEq(g, f) THEN s ELSE s \cup {f}

\* the orders in which a set can be iterated
Orders(S) ==
  {o \in [1..Cardinality(S) -> S] : \A x \in S : \E i \in 1..Cardinality(S) : o[i] = x}

\* '/ifsdata/' in str(f.fullpath)
IsIfsdata(f) ==
  LET str == AbsStr(FullPath(f))
  IN \E i \in 1..(Len(str) - 2) : SubSeq(str, i, i + 2) = <<"/", "ifsdata", "/">>

\* ExperimentFiles.exp_files and ExperimentFiles.ifsdata_files
ExpFiles(fs) == {f \in fs : ~IsIfsdata(f)}
IfsdataFiles(fs) == {f \in fs : IsIfsdata(f)}

\* glob.iglob(str(src_dir/'**'/name), recursive=True): the regular files
\* below sd with that name, found in an order the directory listing decides
Glob(sd, name) == {p \in DiskPaths : IsStrictlyUnder(p, sd) /\ PathName(p) = name}

\* candidates taken by their name alone
MatchesByName(input_file, roots, i) ==
  Glob(roots[i], PathName(input_file.path))

\* the candidates of root i whose checksum is the one of input_file
Matches(input_file, roots, i) ==
  {p \in Glob(roots[i], PathName(input_file.path)) :
     \E o \in InputFile(p, roots[i], TRUE).obj : o.checksum = input_file.checksum}

\* the position of the last root that holds a match
LastMatchRoot(input_file, roots) ==
  LET hits == {i \in 1..Len(roots) : Matches(input_file, roots, i) # {}}
  IN IF hits = {} THEN 0 ELSE CHOOSE i \in hits : \A j \in hits : i >= j

\* the position in roots of the first candidate that matches: candidates are
\* listed root by root in the order of roots
FirstMatchRoot(input_file, roots) ==
  LET hits == {i \in 1..Len(roots) : Matches(input_file, roots, i) # {}}
  IN IF hits = {} THEN 0 ELSE CHOOSE i \in hits : \A j \in hits : i <= j

\* _input_file_in_src_dir that warns and returns input_file whether or not
\* verify_checksum is set
RebaseNeverRaises(input_file, roots, verify_checksum) ==
  LET i == FirstMatchRoot(input_file, roots)
  IN IF roots = <<>> THEN {[err |-> "none", obj |-> {input_file}]}
     ELSE IF i # 0
          THEN {InputFile(p, roots[i], TRUE) : p \in Matches(input_file, roots, i)}
          ELSE {[err |-> "none", obj |-> {input_file}]}

\* _input_file_in_src_dir that searches even when there is no root
RebaseNoEarlyReturn(input_file, roots, verify_checksum) ==
  LET i == FirstMatchRoot(input_file, roots)
  IN IF i # 0
     THEN {InputFile(p, roots[i], TRUE) : p \in Matches(input_file, roots, i)}
     ELSE IF verify_checksum THEN {[err |-> "ValueError", obj |-> {}]}
          ELSE {[err |-> "none", obj |-> {input_file}]}

\* _input_file_in_src_dir that raises whenever it finds no match
RebaseAlwaysVerify(input_file, roots, verify_checksum) ==
  LET i == FirstMatchRoot(input_file, roots)
  IN IF roots = <<>> THEN {[err |-> "none", obj |-> {input_file}]}
     ELSE IF i # 0
          THEN {InputFile(p, roots[i], TRUE) : p \in Matches(input_file, roots, i)}
          ELSE {[err |-> "ValueError", obj |-> {}]}

\* ExperimentFiles._input_file_in_src_dir: the outcomes [err, obj] the
\* listing order allows
Rebase(input_file, roots, verify_checksum) ==
  LET i == FirstMatchRoot(input_file, roots)
  IN IF roots = <<>> THEN {[err |-> "none", obj |-> {input_file}]}
     ELSE IF i # 0
          THEN {InputFile(p, roots[i], TRUE) : p \in Matches(input_file, roots, i)}
          ELSE IF verify_checksum THEN {[err |-> "ValueError", obj |-> {}]}
               ELSE {[err |-> "none", obj |-> {input_file}]}

\* a loop that leaves out a file that cannot be rebased and goes on
RECURSIVE RebaseLoopSkipping(_, _, _, _, _)
RebaseLoopSkipping(todo, roots, verify_checksum, acc, last) ==
  IF todo = <<>> THEN {[err |-> "none", files |-> acc, ret |-> last]}
  ELSE UNION {IF r.err # "none"
              THEN RebaseLoopSkipping(Tail(todo), roots, verify_checksum, acc, last)
              ELSE UNION {RebaseLoopSkipping(Tail(todo), roots, verify_checksum,
                                             SetAdd(acc, g), {g}) : g \in r.obj} :
              r \in Rebase(Head(todo), roots, verify_checksum)}

\* the loop of add_input_file and of update_srcdir over the files in todo:
\* the outcomes [err, files, ret], ret the file added last
RECURSIVE RebaseLoop(_, _, _, _, _)
RebaseLoop(todo, roots, verify_checksum, acc, last) ==
  IF todo = <<>> THEN {[err |-> "none", files |-> acc, ret |-> last]}
  ELSE UNION {IF r.err # "none"
              THEN {[err |-> r.err, files |-> acc, ret |-> {}]}
              ELSE UNION {RebaseLoop(Tail(todo), roots, verify_checksum, SetAdd(acc, g), {g}) :
                            g \in r.obj} :
              r \in Rebase(Head(todo), roots, verify_checksum)}

\* the loop of add_file over the paths in todo
RECURSIVE AddFileLoop(_, _, _, _, _)
AddFileLoop(todo, roots, compute_metadata, acc, last) ==
  IF todo = <<>> THEN {[err |-> "none", files |-> acc, ret |-> last]}
  ELSE LET n == InputFile(Head(todo), RootDir, compute_metadata)
       IN IF n.err # "none" THEN {[err |-> n.err, files |-> acc, ret |-> {}]}
          ELSE UNION {UNION {IF r.err # "none"
                             THEN {[err |-> r.err, files |-> acc, ret |-> {}]}
                             ELSE UNION {AddFileLoop(Tail(todo), roots, compute_metadata,
                                                     SetAdd(acc, g), {g}) : g \in r.obj} :
                             r \in Rebase(f, roots, compute_metadata)} :
                      f \in n.obj}

\* dict[k] = v: a key already present keeps its place
DictSet(d, k, v) ==
  IF \E i \in 1..Len(d) : d[i][1] = k
  THEN [i \in 1..Len(d) |-> IF d[i][1] = k THEN <<k, v>> ELSE d[i]]
  ELSE Append(d, <<k, v>>)

\* defaultdict(dict)[k]
DictGet(d, k) ==
  IF \E i \in 1..Len(d) : d[i][1] = k
  THEN (CHOOSE e \in {d[i] : i \in 1..Len(d)} : e[1] = k)[2]
  ELSE <<>>

\* the loop of ExperimentFiles.to_dict over the files in the order todo
RECURSIVE ToDictLoop(_, _)
ToDictLoop(todo, data) ==
  IF todo = <<>> THEN data
  ELSE LET f == Head(todo)
           key == AbsStr(f.src_dir)
           entry == FileToDict(f)[1]
       IN ToDictLoop(Tail(todo), DictSet(data, key, DictSet(DictGet(data, key), entry[1], entry[2])))

\* ExperimentFiles.to_dict, the set of files iterated in the order given
RegToDict(eid, order) == << <<eid, ToDictLoop(order, <<>>)>> >>

\* the (src_dir, p, f) of the comprehension of ExperimentFiles.from_dict
RECURSIVE ManifestEntries(_)
ManifestEntries(src_dir_files) ==
  IF src_dir_files = <<>> THEN <<>>
  ELSE LET sd == Head(src_dir_files)[1]
           fs == Head(src_dir_files)[2]
       IN [j \in 1..Len(fs) |-> <<sd, fs[j]>>] \o ManifestEntries(Tail(src_dir_files))

\* the set comprehension of ExperimentFiles.from_dict: [err, files]
RECURSIVE FromDictLoop(_, _, _)
FromDictLoop(todo, verify_checksum, acc) ==
  IF todo = <<>> THEN [err |-> "none", files |-> acc]
  ELSE LET r == FileFromDict(<<Head(todo)[2]>>, ParsePath(Head(todo)[1]), verify_checksum)
       IN IF r.err # "none" THEN [err |-> r.err, files |-> {}]
          ELSE FromDictLoop(Tail(todo), verify_checksum,
                            IF r.obj = {} THEN acc ELSE SetAdd(acc, CHOOSE o \in r.obj : TRUE))

\* ExperimentFiles.from_dict: [err, exp_id, src_dir, files]
RegFromDict(data, verify_checksum) ==
  IF Len(data) = 0 THEN [err |-> "KeyError", exp_id |-> "", src_dir |-> <<>>, files |-> {}]
  ELSE IF Len(data) > 1
       THEN [err |-> "AssertionError", exp_id |-> "", src_dir |-> <<>>, files |-> {}]
       ELSE LET src_dir_files == data[1][2]
                r == FromDictLoop(ManifestEntries(src_dir_files), verify_checksum, {})
            IN IF r.err # "none"
               THEN [err |-> r.err, exp_id |-> "", src_dir |-> <<>>, files |-> {}]
               ELSE [err |-> "none", exp_id |-> data[1][1],
                     src_dir |-> [i \in 1..Len(src_dir_files) |-> ParsePath(src_dir_files[i][1])],
                     files |-> r.files]

(***************************************************************************)
(* InputFile objects held by a caller: fa is the object the last call      *)
(* returned and fb the one before it, each a set of at most one object;    *)
(* fcall is the record of the last call.                                   *)
(***************************************************************************)
SrcDirs == {RootDir, DirA}

\* paths handed to the constructor: files on disk and a source directory
\* itself
NewPaths == {<<"A", "x">>, <<"B", "x">>, <<"B", "s", "x">>, DirA}

\* a checksum that no file on disk has
StaleSum == "c9"

Held == fa \cup fb

NoCall ==
  [op |-> "none", path |-> <<>>, sd |-> <<>>, flag |-> FALSE, data |-> <<>>,
   src |-> {}, err |-> "none", ret |-> {}]

\* the caller keeps the object of a call that returned
Store(r) ==
  /\ fa' = IF r.err = "none" THEN r.obj ELSE fa
  /\ fb' = IF r.err = "none" THEN fa ELSE fb

\* InputFile(path, src_dir, compute_metadata)
FNew(path, sd, compute_metadata) ==
  LET r == InputFile(path, sd, compute_metadata)
  IN /\ Store(r)
     /\ fcall' = [op |-> "init", path |-> path, sd |-> sd, flag |-> compute_metadata,
                  data |-> <<>>, src |-> {}, err |-> r.err, ret |-> r.obj]
     /\ UNCHANGED <<regvars, tarvars, rulevars, othervars>>

\* the same entry with another checksum stored in it
WithSum(data, sum) ==
  << <<data[1][1], [k \in (DOMAIN data[1][2]) \cup {"sha256sum"} |->
                      IF k = "sha256sum" THEN sum ELSE data[1][2][k]]>> >>

\* InputFile.from_dict(f.to_dict(), src_dir, verify_checksum) of a held file f
FFromToDict(f, sd, verify_checksum) ==
  LET data == FileToDict(f)
      r == FileFromDict(data, sd, verify_checksum)
  IN /\ Store(r)
     /\ fcall' = [op |-> "from_dict", path |-> <<>>, sd |-> sd, flag |-> verify_checksum,
                  data |-> data, src |-> {f}, err |-> r.err, ret |-> r.obj]
     /\ UNCHANGED <<regvars, tarvars, rulevars, othervars>>

\* dicts that no to_dict produced: no key, two keys, an edited checksum
OtherEntries ==
  {<<>>}
  \cup {FileToDict(f) \o FileToDict(g) : f \in fa, g \in {h \in fb : RelStr(h.path) \notin {RelStr(k.path) : k \in fa}}}
  \cup {WithSum(FileToDict(f), StaleSum) : f \in fa}

\* InputFile.from_dict(data, src_dir, verify_checksum) of any other dict
FFromDict(data, sd, verify_checksum) ==
  LET r == FileFromDict(data, sd, verify_checksum)
  IN /\ Store(r)
     /\ fcall' = [op |-> "from_dict", path |-> <<>>, sd |-> sd, flag |-> verify_checksum,
                  data |-> data, src |-> {}, err |-> r.err, ret |-> r.obj]
     /\ UNCHANGED <<regvars, tarvars, rulevars, othervars>>

\* manifests that are not the to_dict of a registry: no key, two keys
OtherManifests == {<<>>, RegToDict("e1", <<>>) \o RegToDict("e2", <<>>)}

\* ExperimentFiles.from_dict(data, verify_checksum) of such a manifest
FRegFromDict(data, verify_checksum) ==
  LET r == RegFromDict(data, verify_checksum)
  IN /\ fcall' = [op |-> "reg_from_dict", path |-> <<>>, sd |-> <<>>,
                  flag |-> verify_checksum, data |-> data, src |-> {}, err |-> r.err,
                  ret |-> {}]
     /\ UNCHANGED <<fa, fb, regvars, tarvars, rulevars, othervars>>

(***************************************************************************)
(* The registry: exp_id, src_dir and files are the attributes of one       *)
(* ExperimentFiles object and call is the record of the last call on it.   *)
(***************************************************************************)
MaxFiles == 2

\* the src_dir arguments
RootSeqs == {<<>>, <<DirA>>, <<DirA, DirB>>, <<DirB, DirA>>}

\* the filepath arguments of add_file: every file on disk, and two at once
FilePaths ==
  {<<p>> : p \in DiskPaths} \cup {<< <<"B", "s", "x">>, <<"A", "x">> >>}

\* the input_file arguments of add_input_file: a file decoded from an old
\* manifest whose checksum no file has any more, a file without a checksum,
\* and both at once
InputFiles ==
  {<<MkFile(DirA, <<"x">>, StaleSum, 1)>>,
   <<MkFile(DirA, <<"x">>, None, NoSize)>>,
   <<MkFile(DirA, <<"x">>, None, NoSize), MkFile(DirA, <<"x">>, StaleSum, 1)>>}

Called(op, arg, flag, flag2, err, ret) ==
  call' = [op |-> op, arg |-> arg, flag |-> flag, flag2 |-> flag2, err |-> err, ret |-> ret]

\* ExperimentFiles.add_file(*filepath, compute_metadata)
AddFile(filepath, compute_metadata) ==
  /\ Cardinality(files) + Len(filepath) <= MaxFiles
  /\ \E out \in AddFileLoop(filepath, src_dir, compute_metadata, files, {}) :
       /\ files' = out.files
       /\ Called("add_file", filepath, compute_metadata, FALSE, out.err, out.ret)
  /\ UNCHANGED <<exp_id, src_dir, filevars, tarvars, rulevars, othervars>>

\* ExperimentFiles.add_input_file(*input_file, verify_checksum)
AddInputFile(input_file, verify_checksum) ==
  /\ Cardinality(files) + Len(input_file) <= MaxFiles
  /\ \E out \in RebaseLoop(input_file, src_dir, verify_checksum, files, {}) :
       /\ files' = out.files
       /\ Called("add_input_file", input_file, verify_checksum, FALSE, out.err, out.ret)
  /\ UNCHANGED <<exp_id, src_dir, filevars, tarvars, rulevars, othervars>>

\* an update_srcdir that rebases every file, whatever with_ifsdata is
UpdateSrcdirAll(new_src_dir, update_files, with_ifsdata) ==
  /\ src_dir' = new_src_dir
  /\ IF update_files
     THEN \E order \in Orders(files) :
            \E out \in RebaseLoop(order, new_src_dir, TRUE, {}, {}) :
              /\ files' = IF out.err = "none" THEN out.files ELSE files
              /\ Called("update_srcdir", new_src_dir, update_files, with_ifsdata, out.err, {})
     ELSE /\ files' = files
          /\ Called("update_srcdir", new_src_dir, update_files, with_ifsdata, "none", {})
  /\ UNCHANGED <<exp_id, filevars, tarvars, rulevars, othervars>>

\* ExperimentFiles.update_srcdir(src_dir, update_files, with_ifsdata)
UpdateSrcdir(new_src_dir, update_files, with_ifsdata) ==
  LET old_files == IF with_ifsdata THEN files ELSE ExpFiles(files)
      new_files == IF with_ifsdata THEN {} ELSE IfsdataFiles(files)
  IN /\ src_dir' = new_src_dir
     /\ IF update_files
        THEN \E order \in Orders(old_files) :
               \E out \in RebaseLoop(order, new_src_dir, TRUE, new_files, {}) :
                 /\ files' = IF out.err = "none" THEN out.files ELSE files
                 /\ Called("update_srcdir", new_src_dir, update_files, with_ifsdata, out.err, {})
        ELSE /\ files' = files
             /\ Called("update_srcdir", new_src_dir, update_files, with_ifsdata, "none", {})
     /\ UNCHANGED <<exp_id, filevars, tarvars, rulevars, othervars>>

\* ExperimentFiles.from_dict(self.to_dict(), verify_checksum): from_dict is a
\* class method, it leaves the registry alone and returns a new one, kept in
\* call.ret
Reload(verify_checksum) ==
  \E order \in Orders(files) :
    LET r == RegFromDict(RegToDict(exp_id, order), verify_checksum)
    IN /\ Called("reload", <<>>, verify_checksum, FALSE, r.err,
                 IF r.err = "none"
                 THEN {[exp_id |-> r.exp_id, src_dir |-> r.src_dir, files |-> r.files]}
                 ELSE {})
       /\ UNCHANGED <<exp_id, src_dir, files, filevars, tarvars, rulevars, othervars>>

InitReg ==
  /\ exp_id = "e1"
  /\ src_dir \in RootSeqs
  /\ files = {}
  /\ call = [op |-> "init", arg |-> src_dir, flag |-> FALSE, flag2 |-> FALSE,
             err |-> "none", ret |-> {}]

InitHeld ==
  /\ fa = {}
  /\ fb = {}
  /\ fcall = NoCall

\* no third file is held, nothing is being launched and no object of a
\* registry has been made
InitOther ==
  /\ fc = {}
  /\ lrun = [pc |-> "none"]
  /\ heap = [objs |-> <<>>, members |-> {}, rebased |-> <<>>]

\* no archive operation and no path rule has been called
InitIdle ==
  /\ InitOther
  /\ tfs = [dirs |-> {}, files |-> <<>>, tars |-> <<>>, yamls |-> <<>>]
  /\ tcall = [op |-> "none"]
  /\ rcall = [op |-> "none"]

InitFile == InitReg /\ InitHeld /\ InitIdle /\ src_dir = <<>>

NextFile ==
  \/ \E path \in NewPaths, sd \in SrcDirs, cm \in BOOLEAN :
       FNew(path, sd, cm)
  \/ \E f \in Held, sd \in SrcDirs, v \in BOOLEAN :
       FFromToDict(f, sd, v)
  \/ \E data \in OtherEntries, sd \in SrcDirs, v \in BOOLEAN :
       FFromDict(data, sd, v)
  \/ \E data \in OtherManifests, v \in BOOLEAN :
       FRegFromDict(data, v)

SpecFile == InitFile /\ [][NextFile]_vars

(***************************************************************************)
(* InputFile.__eq__ on three files: fa, fb and fc each hold one file and   *)
(* fcall is the record of the comparisons made.                            *)
(***************************************************************************)
\* files the constructor and from_dict return: the x of A with and without
\* metadata, the x of B with the same content, the x below B/s, and the x
\* of A decoded from an entry whose checksum no file has any more
EqFiles ==
  UNION {InputFile(<<"A", "x">>, RootDir, TRUE).obj,
         InputFile(<<"A", "x">>, DirA, FALSE).obj,
         InputFile(<<"B", "x">>, RootDir, TRUE).obj,
         InputFile(<<"B", "x">>, RootDir, FALSE).obj,
         InputFile(<<"B", "s", "x">>, RootDir, TRUE).obj,
         FileFromDict(WithSum(FileToDict(MkFile(DirA, <<"x">>, None, NoSize)), StaleSum),
                      DirA, FALSE).obj}

\* a == a, a == b, b == a, b == c and a == c of the files held
FCompare ==
  \E a \in fa, b \in fb, c \in fc :
    /\ fcall' = [op |-> "eq", aa |-> FileEq(a, a), ab |-> FileEq(a, b),
                 ba |-> FileEq(b, a), bc |-> FileEq(b, c), ac |-> FileEq(a, c)]
    /\ UNCHANGED <<regvars, fa, fb, fc, tarvars, rulevars, lrun, heap>>

InitEq ==
  /\ InitReg
  /\ src_dir = <<>>
  /\ fa \in {{f} : f \in EqFiles}
  /\ fb \in {{f} : f \in EqFiles}
  /\ fc \in {{f} : f \in EqFiles}
  /\ fcall = NoCall
  /\ tfs = [dirs |-> {}, files |-> <<>>, tars |-> <<>>, yamls |-> <<>>]
  /\ tcall = [op |-> "none"]
  /\ rcall = [op |-> "none"]
  /\ lrun = [pc |-> "none"]
  /\ heap = [objs |-> <<>>, members |-> {}, rebased |-> <<>>]

SpecEq == InitEq /\ [][FCompare]_vars

Init == InitReg /\ InitHeld /\ InitIdle

Next ==
  \/ \E filepath \in FilePaths, cm \in BOOLEAN : AddFile(filepath, cm)
  \/ \E input_file \in InputFiles, v \in BOOLEAN :
       AddInputFile(input_file, v)
  \/ \E new_src_dir \in RootSeqs, update_files \in BOOLEAN, with_ifsdata \in BOOLEAN :
       UpdateSrcdir(new_src_dir, update_files, with_ifsdata)
  \/ \E v \in BOOLEAN : Reload(v)

Spec == Init /\ [][Next]_vars

(***************************************************************************)
(* The InputFile objects of a registry.  heap.objs holds the attributes of *)
(* every InputFile object made so far, an object being its place in the    *)
(* sequence; heap.members is the set _files of the registry as objects;    *)
(* heap.rebased lists, for the last call, each object handed to            *)
(* _input_file_in_src_dir with the object it returned.  files holds the    *)
(* attributes of the members.  An object made for a candidate that does    *)
(* not match is referred to by nothing and is left out.                    *)
(***************************************************************************)
MaxObjs == 3

\* set.add of the object id
ObjSetAdd(objs, s, id) ==
  IF \E g \in s : FileHash(objs[g]) = FileHash(objs[id]) /\ FileEq(objs[g], objs[id])
  THEN s ELSE s \cup {id}

\* an _input_file_in_src_dir that gives the object it was handed the
\* attributes of the match
ObjRebaseInPlace(objs, id, roots, verify_checksum) ==
  LET i == FirstMatchRoot(objs[id], roots)
  IN IF roots = <<>> THEN {[err |-> "none", objs |-> objs, id |-> id]}
     ELSE IF i # 0
          THEN {[err |-> "none", objs |-> [objs EXCEPT ![id] = o], id |-> id] :
                  o \in UNION {InputFile(p, roots[i], TRUE).obj :
                                 p \in Matches(objs[id], roots, i)}}
          ELSE IF verify_checksum THEN {[err |-> "ValueError", objs |-> objs, id |-> 0]}
               ELSE {[err |-> "none", objs |-> objs, id |-> id]}

\* ExperimentFiles._input_file_in_src_dir on the object id: the outcomes
\* [err, objs, id], id the object returned
ObjRebase(objs, id, roots, verify_checksum) ==
  LET i == FirstMatchRoot(objs[id], roots)
  IN IF roots = <<>> THEN {[err |-> "none", objs |-> objs, id |-> id]}
     ELSE IF i # 0
          THEN {[err |-> "none", objs |-> Append(objs, o), id |-> Len(objs) + 1] :
                  o \in UNION {InputFile(p, roots[i], TRUE).obj :
                                 p \in Matches(objs[id], roots, i)}}
          ELSE IF verify_checksum THEN {[err |-> "ValueError", objs |-> objs, id |-> 0]}
               ELSE {[err |-> "none", objs |-> objs, id |-> id]}

\* the loop of add_input_file and of update_srcdir over the objects todo:
\* the outcomes [err, objs, members, rebased]
RECURSIVE ObjRebaseLoop(_, _, _, _, _, _)
ObjRebaseLoop(todo, objs, roots, verify_checksum, acc, rebased) ==
  IF todo = <<>>
  THEN {[err |-> "none", objs |-> objs, members |-> acc, rebased |-> rebased]}
  ELSE UNION {IF r.err # "none"
              THEN {[err |-> r.err, objs |-> r.objs, members |-> acc, rebased |-> rebased]}
              ELSE ObjRebaseLoop(Tail(todo), r.objs, roots, verify_checksum,
                                 ObjSetAdd(r.objs, acc, r.id),
                                 Append(rebased, <<Head(todo), r.id>>)) :
              r \in ObjRebase(objs, Head(todo), roots, verify_checksum)}

\* the loop of add_file over the paths todo
RECURSIVE ObjAddFileLoop(_, _, _, _, _, _)
ObjAddFileLoop(todo, objs, roots, compute_metadata, acc, rebased) ==
  IF todo = <<>>
  THEN {[err |-> "none", objs |-> objs, members |-> acc, rebased |-> rebased]}
  ELSE LET n == InputFile(Head(todo), RootDir, compute_metadata)
       IN IF n.err # "none"
          THEN {[err |-> n.err, objs |-> objs, members |-> acc, rebased |-> rebased]}
          ELSE UNION {UNION {IF r.err # "none"
                             THEN {[err |-> r.err, objs |-> r.objs, members |-> acc,
                                    rebased |-> rebased]}
                             ELSE ObjAddFileLoop(Tail(todo), r.objs, roots, compute_metadata,
                                                 ObjSetAdd(r.objs, acc, r.id),
                                                 Append(rebased, <<Len(objs) + 1, r.id>>)) :
                             r \in ObjRebase(Append(objs, f), Len(objs) + 1, roots,
                                             compute_metadata)} :
                      f \in n.obj}

\* the registry after a call: its objects, its members and their
\* attributes; of the call only the name and the outcome are recorded
ObjCalled(out, members) ==
  /\ Len(out.objs) <= MaxObjs
  /\ heap' = [objs |-> out.objs, members |-> members, rebased |-> out.rebased]
  /\ files' = {out.objs[id] : id \in members}

\* ExperimentFiles.add_file(*filepath, compute_metadata)
ObjAddFile(filepath, compute_metadata) ==
  /\ \E out \in ObjAddFileLoop(filepath, heap.objs, src_dir, compute_metadata,
                               heap.members, <<>>) :
       /\ ObjCalled(out, out.members)
       /\ Called("add_file", <<>>, FALSE, FALSE, out.err, {})
  /\ UNCHANGED <<exp_id, src_dir, filevars, tarvars, rulevars, fc, lrun>>

\* ExperimentFiles.add_input_file(*input_file, verify_checksum) with
\* objects the caller has just made
ObjAddInputFile(input_file, verify_checksum) ==
  /\ \E out \in ObjRebaseLoop([k \in 1..Len(input_file) |-> Len(heap.objs) + k],
                              heap.objs \o input_file, src_dir, verify_checksum,
                              heap.members, <<>>) :
       /\ ObjCalled(out, out.members)
       /\ Called("add_input_file", <<>>, FALSE, FALSE, out.err, {})
  /\ UNCHANGED <<exp_id, src_dir, filevars, tarvars, rulevars, fc, lrun>>

\* ExperimentFiles.update_srcdir(src_dir, update_files, with_ifsdata)
ObjUpdateSrcdir(new_src_dir, update_files, with_ifsdata) ==
  LET old_files == {id \in heap.members : with_ifsdata \/ ~IsIfsdata(heap.objs[id])}
      new_files == heap.members \ old_files
  IN /\ src_dir' = new_src_dir
     /\ IF update_files
        THEN \E order \in Orders(old_files) :
               \E out \in ObjRebaseLoop(order, heap.objs, new_src_dir, TRUE, new_files, <<>>) :
                 /\ ObjCalled(out, IF out.err = "none" THEN out.members ELSE heap.members)
                 /\ Called("update_srcdir", <<>>, FALSE, FALSE, out.err, {})
        ELSE /\ heap' = [heap EXCEPT !.rebased = <<>>]
             /\ files' = files
             /\ Called("update_srcdir", <<>>, FALSE, FALSE, "none", {})
     /\ UNCHANGED <<exp_id, filevars, tarvars, rulevars, fc, lrun>>

\* the roots of the registry
ObjRoots == {<<>>, <<DirA>>, <<DirB, DirA>>}

NextObj ==
  \/ \E filepath \in {<< <<"B", "x">> >>, << <<"A", "ifsdata", "z">> >>}, cm \in BOOLEAN :
       ObjAddFile(filepath, cm)
  \/ \E input_file \in {<<MkFile(DirA, <<"x">>, StaleSum, 1)>>}, v \in BOOLEAN :
       ObjAddInputFile(input_file, v)
  \/ \E new_src_dir \in ObjRoots, update_files \in BOOLEAN, with_ifsdata \in BOOLEAN :
       ObjUpdateSrcdir(new_src_dir, update_files, with_ifsdata)

InitObj == Init /\ src_dir \in ObjRoots

SpecObj == InitObj /\ [][NextObj]_vars

(***************************************************************************)
(* Archives.  tfs is the file system the archive operations run against:   *)
(* tfs.dirs is the set of directories, tfs.files maps a regular file to    *)
(* its checksum and size, tfs.tars maps an archive <<directory, name>> to  *)
(* its members (relative path -> checksum and size) and tfs.yamls maps a   *)
(* YAML file to the dict it holds.  The name of an archive is the sequence *)
(* of the parts between its dots.  tcall is the record of the last call.   *)
(***************************************************************************)
DirAd == <<"A", "d">>
DirBd == <<"B", "d">>
DirBe == <<"B", "e">>
DirBv == <<"B", "d.v1">>
DirT == <<"t">>
DirTSub == <<"t", "sub">>
DirOut == <<"out">>
DirNew == <<"new">>
DirS == <<"s">>
SummaryFile == <<"t", "m.yml">>

\* the regular files the experiments were run with
InputData ==
  [p \in {DirAd \o <<"x">>, DirBd \o <<"y">>, DirBe \o <<"w">>, DirBv \o <<"v">>,
          <<"A", "ifsdata", "z">>} |->
     CASE p = DirAd \o <<"x">> -> [sum |-> "c1", size |-> 1]
       [] p = DirBd \o <<"y">> -> [sum |-> "c2", size |-> 1]
       [] p = DirBe \o <<"w">> -> [sum |-> "c4", size |-> 2]
       [] p = DirBv \o <<"v">> -> [sum |-> "c5", size |-> 3]
       [] p = <<"A", "ifsdata", "z">> -> [sum |-> "c3", size |-> 2]]

\* the directories on the way to p, p left out
Parents(p) == {SubSeq(p, 1, n) : n \in 0..(Len(p) - 1)}

\* the file system before the manifest is written and any archive is made:
\* the input data, two directories for archives, one nested in the other,
\* and an output directory; /new and /s do not exist
FreshFs ==
  [dirs |-> UNION {Parents(p) : p \in DOMAIN InputData} \cup {DirT, DirTSub, DirOut},
   files |-> InputData,
   tars |-> <<>>,
   yamls |-> <<>>]

\* the InputFile of a file of the input data
DataFile(sd, rel) == MkFile(sd, rel, InputData[sd \o rel].sum, InputData[sd \o rel].size)

\* the registries archives are made of: two roots with the same final
\* segment; two roots with different ones; an experiment file and an ifsdata
\* file; an ifsdata file alone; a file under the root "/"; a root with a dot
\* in its name
TarRegistries ==
  {{DataFile(DirAd, <<"x">>), DataFile(DirBd, <<"y">>)},
   {DataFile(DirAd, <<"x">>), DataFile(DirBe, <<"w">>)},
   {DataFile(DirAd, <<"x">>), DataFile(<<"A">>, <<"ifsdata", "z">>)},
   {DataFile(<<"A">>, <<"ifsdata", "z">>)},
   {DataFile(RootDir, <<"A", "d", "x">>)},
   {DataFile(DirBv, <<"v">>)}}

\* a file name split at its dots
NameParts(name) == IF name = "d.v1" THEN <<"d", "v1">> ELSE <<name>>

\* '{}.tar.gz'.format(name)
TarballName(name) == NameParts(name) \o <<"tar", "gz">>

\* Path(name).with_suffix('.tar.gz').name: the last suffix of the name, if
\* it has one, is replaced
WithSuffix(name) ==
  LET parts == NameParts(name)
  IN (IF Len(parts) > 1 THEN SubSeq(parts, 1, Len(parts) - 1) ELSE parts) \o <<"tar", "gz">>

\* a function with the value v at k and the values of f elsewhere
Put(f, k, v) == [x \in (DOMAIN f) \cup {k} |-> IF x = k THEN v ELSE f[x]]

\* ExperimentFiles.to_yaml: the file holds the dict of to_dict, the set of
\* files iterated in the order given
ToYamlFs(fs, eid, order, output_path) ==
  [fs EXCEPT !.yamls = Put(fs.yamls, output_path, RegToDict(eid, order))]

\* ExperimentFiles._create_tarball: tar cvzhf writes the archive anew, the
\* members read below basedir; [err, fs, key]
CreateTarball(fs, members, output_basename, basedir) ==
  LET dir == SubSeq(output_basename, 1, Len(output_basename) - 1)
      key == <<dir, WithSuffix(output_basename[Len(output_basename)])>>
      rels == {ParsePath(members[i]) : i \in 1..Len(members)}
  IN IF dir \notin fs.dirs \/ \E m \in rels : (basedir \o m) \notin DOMAIN fs.files
     THEN [err |-> "ExecuteError", fs |-> fs, key |-> key]
     ELSE [err |-> "none",
           fs |-> [fs EXCEPT !.tars = Put(fs.tars, key, [m \in rels |-> fs.files[basedir \o m]])],
           key |-> key]

\* the loop of to_tarball that fills the defaultdict(list) exp_files
RECURSIVE GroupLoop(_, _)
GroupLoop(todo, groups) ==
  IF todo = <<>> THEN groups
  ELSE LET f == Head(todo)
       IN GroupLoop(Tail(todo),
                    DictSet(groups, f.src_dir, DictGet(groups, f.src_dir) \o <<RelStr(f.path)>>))

\* the loop of to_tarball over exp_files.items(): [err, fs, created], created
\* the archives written so far
RECURSIVE TarballLoop(_, _, _, _)
TarballLoop(groups, output_dir, fs, created) ==
  IF groups = <<>> THEN [err |-> "none", fs |-> fs, created |-> created]
  ELSE LET sd == Head(groups)[1]
           name == IF PathName(sd) = "" THEN "other" ELSE PathName(sd)
           r == CreateTarball(fs, Head(groups)[2], output_dir \o <<name>>, sd)
       IN IF r.err # "none" THEN [err |-> r.err, fs |-> fs, created |-> created]
          ELSE TarballLoop(Tail(groups), output_dir, r.fs, Append(created, r.key))

\* the with_ifsdata part of to_tarball, the ifsdata files listed in the
\* order given
IfsdataTarball(ifsdata_files, output_dir, fs, created) ==
  IF ifsdata_files = <<>> THEN [err |-> "none", fs |-> fs, created |-> created]
  ELSE LET r == CreateTarball(fs, [i \in 1..Len(ifsdata_files) |-> RelStr(ifsdata_files[i].path)],
                              output_dir \o <<"ifsdata">>, ifsdata_files[1].src_dir)
       IN IF r.err # "none" THEN [err |-> r.err, fs |-> fs, created |-> created]
          ELSE [err |-> "none", fs |-> r.fs, created |-> Append(created, r.key)]

\* ExperimentFiles.to_tarball(output_dir, with_ifsdata)
ToTarball(output_dir, with_ifsdata) ==
  /\ \E order \in Orders(ExpFiles(files)), iorder \in Orders(IfsdataFiles(files)) :
       \E r \in {TarballLoop(GroupLoop(order, <<>>), output_dir, tfs, <<>>)} :
         \E s \in {IF r.err = "none" /\ with_ifsdata
                   THEN IfsdataTarball(iorder, output_dir, r.fs, r.created)
                   ELSE r} :
           /\ tfs' = s.fs
           /\ tcall' = [op |-> "to_tarball", err |-> s.err, output_dir |-> output_dir,
                        with_ifsdata |-> with_ifsdata, created |-> s.created]
  /\ UNCHANGED <<regvars, filevars, rulevars, othervars>>

\* glob.iglob(str(src_dir/'**'/tarball_name), recursive=True): the archives
\* of that name in sd or below it
TarGlob(fs, sd, tarball_name) ==
  {k \in DOMAIN fs.tars : IsUnder(k[1], sd) /\ k[2] = tarball_name}

\* the length of the list candidates of from_tarball
NumCandidates(fs, input_dir, tarball_name) ==
  Cardinality({<<i, k>> \in (1..Len(input_dir)) \X (DOMAIN fs.tars) :
                 k \in TarGlob(fs, input_dir[i], tarball_name)})

\* what candidates[0] can be: the candidates are listed search directory by
\* search directory, those of one directory in the order of its listing
FirstCandidates(fs, input_dir, tarball_name) ==
  LET hits == {i \in 1..Len(input_dir) : TarGlob(fs, input_dir[i], tarball_name) # {}}
  IN IF hits = {} THEN {}
     ELSE TarGlob(fs, input_dir[CHOOSE i \in hits : \A j \in hits : i <= j], tarball_name)

\* a search that looks into the search directories themselves only
FindTarballsFlat(fs, exp_files, input_dir) ==
  LET names == {TarballName(PathName(f.src_dir)) : f \in exp_files}
      here(n) == {k \in DOMAIN fs.tars : k[2] = n /\ \E i \in 1..Len(input_dir) : k[1] = input_dir[i]}
  IN IF \E n \in names : here(n) = {}
     THEN {[err |-> "ValueError", msg |-> "Archive not found in input directories",
            tarballs |-> {}, warned |-> {}]}
     ELSE {[err |-> "none", msg |-> "", tarballs |-> {pick[n] : n \in names}, warned |-> {}] :
             pick \in {p \in [names -> UNION {here(n) : n \in names}] :
                         \A n \in names : p[n] \in here(n)}}

\* the loop of from_tarball that finds the archives of the experiment files:
\* the outcomes [err, msg, tarballs, warned], warned the names the warning
\* was given for
FindTarballs(fs, exp_files, input_dir) ==
  LET names == {TarballName(PathName(f.src_dir)) : f \in exp_files}
  IN IF \E n \in names : NumCandidates(fs, input_dir, n) = 0
     THEN {[err |-> "ValueError", msg |-> "Archive not found in input directories",
            tarballs |-> {}, warned |-> {}]}
     ELSE {[err |-> "none", msg |-> "", tarballs |-> {pick[n] : n \in names},
            warned |-> {n \in names : NumCandidates(fs, input_dir, n) > 1}] :
             pick \in {p \in [names -> UNION {FirstCandidates(fs, input_dir, n) : n \in names}] :
                         \A n \in names : p[n] \in FirstCandidates(fs, input_dir, n)}}

\* a search for ifsdata.tar.gz that goes through the search directories as
\* the search for the other archives does
FindIfsdataRecursive(fs, tarballs, input_dir, with_ifsdata) ==
  LET n == TarballName("ifsdata")
  IN IF ~with_ifsdata THEN {[err |-> "none", msg |-> "", ifsdata |-> {}, warned |-> FALSE]}
     ELSE IF NumCandidates(fs, input_dir, n) = 0
          THEN {[err |-> "ValueError",
                 msg |-> "ifsdata.tar.gz not found in any experiment tarball directory",
                 ifsdata |-> {}, warned |-> FALSE]}
          ELSE {[err |-> "none", msg |-> "", ifsdata |-> {k},
                 warned |-> NumCandidates(fs, input_dir, n) > 1] :
                  k \in FirstCandidates(fs, input_dir, n)}

\* the with_ifsdata part of from_tarball: ifsdata.tar.gz is looked for next
\* to the archives found, or in the search directories themselves when no
\* archive was looked for; the outcomes [err, msg, ifsdata, warned]
FindIfsdata(fs, tarballs, input_dir, with_ifsdata) ==
  LET n == TarballName("ifsdata")
      beside == {<<k[1], n>> : k \in tarballs} \cap DOMAIN fs.tars
      direct == {i \in 1..Len(input_dir) : <<input_dir[i], n>> \in DOMAIN fs.tars}
  IN IF ~with_ifsdata THEN {[err |-> "none", msg |-> "", ifsdata |-> {}, warned |-> FALSE]}
     ELSE IF tarballs # {}
          THEN IF beside = {}
               THEN {[err |-> "ValueError",
                      msg |-> "ifsdata.tar.gz not found in any experiment tarball directory",
                      ifsdata |-> {}, warned |-> FALSE]}
               ELSE {[err |-> "none", msg |-> "", ifsdata |-> {k},
                      warned |-> Cardinality(beside) > 1] : k \in beside}
          ELSE IF direct = {}
               THEN {[err |-> "ValueError",
                      msg |-> "ifsdata.tar.gz not found in any experiment tarball directory",
                      ifsdata |-> {}, warned |-> FALSE]}
               ELSE {[err |-> "none", msg |-> "",
                      ifsdata |-> {<<input_dir[CHOOSE i \in direct : \A j \in direct : i <= j], n>>},
                      warned |-> Cardinality(direct) > 1]}

\* Path.mkdir(exist_ok=True): [err, fs]
Mkdir(fs, d) ==
  IF d \in fs.dirs THEN [err |-> "none", fs |-> fs]
  ELSE IF d \in DOMAIN fs.files THEN [err |-> "FileExistsError", fs |-> fs]
  ELSE IF SubSeq(d, 1, Len(d) - 1) \notin fs.dirs THEN [err |-> "FileNotFoundError", fs |-> fs]
  ELSE [err |-> "none", fs |-> [fs EXCEPT !.dirs = @ \cup {d}]]

\* ExperimentFiles._extract_tarball: tar xvzf with output_dir as working
\* directory writes every member below it, over what is there; [err, fs]
ExtractTarball(fs, filepath, output_dir) ==
  IF output_dir \notin fs.dirs THEN [err |-> "FileNotFoundError", fs |-> fs]
  ELSE IF filepath \notin DOMAIN fs.tars THEN [err |-> "ExecuteError", fs |-> fs]
  ELSE LET members == fs.tars[filepath]
           written == {output_dir \o m : m \in DOMAIN members}
       IN [err |-> "none",
           fs |-> [fs EXCEPT
                     !.dirs = @ \cup UNION {Parents(p) : p \in written},
                     !.files = [p \in (DOMAIN fs.files) \cup written |->
                                  IF p \in written
                                  THEN members[SubSeq(p, Len(output_dir) + 1, Len(p))]
                                  ELSE fs.files[p]]]]

\* the loop of from_tarball over the set tarballs, in the order given
RECURSIVE ExtractLoop(_, _, _)
ExtractLoop(todo, output_dir, fs) ==
  IF todo = <<>> THEN [err |-> "none", fs |-> fs]
  ELSE LET r == ExtractTarball(fs, Head(todo), output_dir)
       IN IF r.err # "none" THEN r ELSE ExtractLoop(Tail(todo), output_dir, r.fs)

\* glob.iglob(str(src_dir/'**'/name), recursive=True) on fs
GlobOn(fs, sd, name) ==
  {p \in DOMAIN fs.files : IsStrictlyUnder(p, sd) /\ PathName(p) = name}

\* the candidates of root i whose checksum is the one of input_file
MatchesOn(fs, input_file, roots, i) ==
  {p \in GlobOn(fs, roots[i], PathName(input_file.path)) :
     fs.files[p].sum = input_file.checksum}

\* _input_file_in_src_dir on fs that keeps a file it finds no match for
RebaseOnKeeping(fs, input_file, roots) ==
  LET hits == {i \in 1..Len(roots) : MatchesOn(fs, input_file, roots, i) # {}}
      first == CHOOSE i \in hits : \A j \in hits : i <= j
  IN IF roots = <<>> \/ hits = {} THEN {[err |-> "none", obj |-> {input_file}]}
     ELSE {[err |-> "none",
            obj |-> {MkFile(roots[first], SubSeq(p, Len(roots[first]) + 1, Len(p)),
                            fs.files[p].sum, fs.files[p].size)}] :
             p \in MatchesOn(fs, input_file, roots, first)}

\* ExperimentFiles._input_file_in_src_dir on fs with verify_checksum set:
\* the outcomes [err, obj] the listing order allows
RebaseOn(fs, input_file, roots) ==
  LET hits == {i \in 1..Len(roots) : MatchesOn(fs, input_file, roots, i) # {}}
      first == CHOOSE i \in hits : \A j \in hits : i <= j
  IN IF roots = <<>> THEN {[err |-> "none", obj |-> {input_file}]}
     ELSE IF hits # {}
          THEN {[err |-> "none",
                 obj |-> {MkFile(roots[first], SubSeq(p, Len(roots[first]) + 1, Len(p)),
                                 fs.files[p].sum, fs.files[p].size)}] :
                  p \in MatchesOn(fs, input_file, roots, first)}
          ELSE {[err |-> "ValueError", obj |-> {}]}

\* the loop of update_srcdir on fs over the files in todo: [err, files]
RECURSIVE RebaseLoopOn(_, _, _, _)
RebaseLoopOn(fs, todo, roots, acc) ==
  IF todo = <<>> THEN {[err |-> "none", files |-> acc]}
  ELSE UNION {IF r.err # "none"
              THEN {[err |-> r.err, files |-> acc]}
              ELSE UNION {RebaseLoopOn(fs, Tail(todo), roots, SetAdd(acc, g)) : g \in r.obj} :
              r \in RebaseOn(fs, Head(todo), roots)}

\* obj.update_srcdir(src_dir, update_files=True, with_ifsdata) on fs: the
\* outcomes [err, obj]
UpdateSrcdirOn(fs, obj, new_src_dir, with_ifsdata) ==
  LET old_files == IF with_ifsdata THEN obj.files ELSE ExpFiles(obj.files)
      new_files == IF with_ifsdata THEN {} ELSE IfsdataFiles(obj.files)
  IN UNION {{[err |-> out.err,
              obj |-> [obj EXCEPT !.src_dir = new_src_dir,
                                  !.files = IF out.err = "none" THEN out.files ELSE @]] :
               out \in RebaseLoopOn(fs, order, new_src_dir, new_files)} :
            order \in Orders(old_files)}

\* the call record of a from_tarball that went as far as r says
TarballCall(args, loaded, r) ==
  [op |-> "from_tarball", args |-> args, loaded |-> loaded, err |-> r.err, msg |-> r.msg,
   tarballs |-> r.tarballs, ifsdata |-> r.ifsdata, warned |-> r.warned,
   warned_ifsdata |-> r.warned_ifsdata, rebased |-> r.rebased, saved |-> r.saved,
   ret |-> r.ret]

\* from_tarball from the extraction on, with the archives found: the
\* outcomes [fs, r], r the fields of the call record
ExtractAndSave(fs, obj, a, t, i) ==
  LET output_dir == a.output_dir \o <<obj.exp_id>>
      ifsdata_dir == IF a.ifsdata_dir = {} THEN output_dir
                     ELSE CHOOSE d \in a.ifsdata_dir : TRUE
      base == [err |-> "none", msg |-> "", tarballs |-> t.tarballs, ifsdata |-> i.ifsdata,
               warned |-> t.warned, warned_ifsdata |-> i.warned, rebased |-> FALSE,
               saved |-> {}, ret |-> {}]
      target == IF t.tarballs # {} THEN {output_dir \o <<PathName(a.summary_file)>>}
                ELSE IF i.ifsdata # {} THEN {ifsdata_dir \o <<PathName(a.summary_file)>>}
                ELSE {}
      \* if verify_checksum: obj.update_srcdir(...), then obj.to_yaml(...)
      Finish(y) ==
        UNION {IF u.err # "none"
               THEN {[fs |-> y.fs,
                      r |-> [base EXCEPT !.err = u.err, !.rebased = TRUE,
                                         !.msg = "Input file not found in source directories"]]}
               ELSE {[fs |-> IF target = {} THEN y.fs
                             ELSE ToYamlFs(y.fs, u.obj.exp_id, save_order,
                                           CHOOSE p \in target : TRUE),
                      r |-> [base EXCEPT !.rebased = a.verify_checksum, !.saved = target,
                                         !.ret = {u.obj}]] :
                       save_order \in Orders(u.obj.files)} :
               u \in IF a.verify_checksum
                     THEN UpdateSrcdirOn(y.fs, obj, <<output_dir, ifsdata_dir>>,
                                         a.with_ifsdata \/ TRUE)
                     ELSE {[err |-> "none", obj |-> obj]}}
      \* if ifsdata_tarball is not None: mkdir and extract
      Ifsdata(x) ==
        IF i.ifsdata = {} THEN Finish(x)
        ELSE UNION {IF made.err # "none" THEN {[fs |-> made.fs, r |-> [base EXCEPT !.err = made.err]]}
                    ELSE UNION {IF y.err # "none"
                                THEN {[fs |-> y.fs, r |-> [base EXCEPT !.err = y.err]]}
                                ELSE Finish(y) :
                                y \in {ExtractTarball(made.fs, CHOOSE k \in i.ifsdata : TRUE,
                                                      ifsdata_dir)}} :
                    made \in {Mkdir(x.fs, ifsdata_dir)}}
  IN IF t.tarballs = {} THEN Ifsdata([err |-> "none", fs |-> fs])
     ELSE UNION {IF made.err # "none"
                 THEN {[fs |-> made.fs, r |-> [base EXCEPT !.err = made.err]]}
                 ELSE UNION {IF x.err # "none"
                             THEN {[fs |-> x.fs, r |-> [base EXCEPT !.err = x.err]]}
                             ELSE Ifsdata(x) :
                             x \in {ExtractLoop(order, output_dir, made.fs) :
                                      order \in Orders(t.tarballs)}} :
                 made \in {Mkdir(fs, output_dir)}}

\* ExperimentFiles.from_tarball(summary_file, input_dir, output_dir,
\* ifsdata_dir, with_ifsdata, verify_checksum); a is the record of the
\* arguments, ifsdata_dir a set that is empty for None
FromTarball(a) ==
  LET none == [err |-> "none", msg |-> "", tarballs |-> {}, ifsdata |-> {}, warned |-> {},
               warned_ifsdata |-> FALSE, rebased |-> FALSE, saved |-> {}, ret |-> {}]
  IN /\ IF a.summary_file \notin DOMAIN tfs.yamls
        THEN /\ tfs' = tfs
             /\ tcall' = TarballCall(a, {}, [none EXCEPT !.err = "FileNotFoundError"])
        ELSE \E d \in {RegFromDict(tfs.yamls[a.summary_file], FALSE)} :
          IF d.err # "none"
          THEN /\ tfs' = tfs
               /\ tcall' = TarballCall(a, {}, [none EXCEPT !.err = d.err])
          ELSE \E obj \in {[exp_id |-> d.exp_id, src_dir |-> d.src_dir, files |-> d.files]} :
            \E t \in FindTarballs(tfs, ExpFiles(obj.files), a.input_dir) :
               IF t.err # "none"
               THEN /\ tfs' = tfs
                    /\ tcall' = TarballCall(a, {obj}, [none EXCEPT !.err = t.err, !.msg = t.msg])
               ELSE \E i \in FindIfsdata(tfs, t.tarballs, a.input_dir, a.with_ifsdata) :
                      IF i.err # "none"
                      THEN /\ tfs' = tfs
                           /\ tcall' = TarballCall(a, {obj},
                                                   [none EXCEPT !.err = i.err, !.msg = i.msg,
                                                                !.tarballs = t.tarballs,
                                                                !.warned = t.warned])
                      ELSE \E out \in ExtractAndSave(tfs, obj, a, t, i) :
                             /\ tfs' = out.fs
                             /\ tcall' = TarballCall(a, {obj}, out.r)
     /\ UNCHANGED <<regvars, filevars, rulevars, othervars>>

\* the arguments of from_tarball: every combination with the output
\* directory that exists, and the ones that verify with the one that does not
TarballArgs ==
  [summary_file : {SummaryFile},
   input_dir : {<<DirT>>, <<DirTSub, DirT>>},
   output_dir : {DirOut},
   ifsdata_dir : {{}, {DirS}},
   with_ifsdata : BOOLEAN,
   verify_checksum : BOOLEAN]
  \cup
  [summary_file : {SummaryFile},
   input_dir : {<<DirT>>},
   output_dir : {DirNew},
   ifsdata_dir : {{}},
   with_ifsdata : BOOLEAN,
   verify_checksum : {TRUE}]

InitTar ==
  /\ exp_id = "e1"
  /\ src_dir = <<>>
  /\ files \in TarRegistries
  /\ call = [op |-> "init", arg |-> src_dir, flag |-> FALSE, flag2 |-> FALSE,
             err |-> "none", ret |-> {}]
  /\ InitHeld
  /\ \E order \in Orders(files) : tfs = ToYamlFs(FreshFs, exp_id, order, SummaryFile)
  /\ tcall = [op |-> "none"]
  /\ rcall = [op |-> "none"]
  /\ InitOther

NextTar ==
  \/ \E output_dir \in {DirT, DirTSub}, with_ifsdata \in BOOLEAN :
       ToTarball(output_dir, with_ifsdata)
  \/ \E a \in TarballArgs : FromTarball(a)

SpecTar == InitTar /\ [][NextTar]_vars

(***************************************************************************)
(* SpecialRelativePath.  A string is the sequence of its characters.  A    *)
(* compiled pattern is the record of what from_filename or from_dirname    *)
(* put into it: the name given, whether the groups pre, post and child are *)
(* there.  A replacement is a sequence of characters and of references     *)
(* "\g<group>".  rcall is the record of the last call.                     *)
(***************************************************************************)
EXACT == "EXACT"
LEFT_ALIGNED == "LEFT_ALIGNED"
RIGHT_ALIGNED == "RIGHT_ALIGNED"
FREE == "FREE"
NameMatch == {EXACT, LEFT_ALIGNED, RIGHT_ALIGNED, FREE}

\* a pattern in which pre and post are there whatever match is
FromFilenameAnyMode(filename, repl, match) ==
  [pattern |-> [pre |-> TRUE, lit |-> filename, post |-> TRUE, child |-> FALSE],
   repl |-> repl]

\* SpecialRelativePath.from_filename
FromFilename(filename, repl, match) ==
  [pattern |-> [pre |-> match \in {RIGHT_ALIGNED, FREE},
                lit |-> filename,
                post |-> match \in {LEFT_ALIGNED, FREE},
                child |-> FALSE],
   repl |-> repl]

\* a from_dirname that ends its pattern as from_filename does
FromDirnameNoChild(dirname, repl, match) ==
  [pattern |-> [pre |-> match \in {RIGHT_ALIGNED, FREE},
                lit |-> dirname,
                post |-> match \in {LEFT_ALIGNED, FREE},
                child |-> FALSE],
   repl |-> repl]

\* SpecialRelativePath.from_dirname
FromDirname(dirname, repl, match) ==
  [pattern |-> [pre |-> match \in {RIGHT_ALIGNED, FREE},
                lit |-> dirname,
                post |-> match \in {LEFT_ALIGNED, FREE},
                child |-> TRUE],
   repl |-> repl]

\* the position of the first "/" in s, 0 when it has none
FirstSlash(s) ==
  LET at == {k \in 1..Len(s) : s[k] = "/"}
  IN IF at = {} THEN 0 ELSE CHOOSE k \in at : \A l \in at : k <= l

\* the ways the pattern matches the whole of s, as <<i, j>>: parent is the
\* first i characters and pre the j after them.  parent ends with "/" or
\* is not there, pre and post hold no "/", child starts with "/"
Decompositions(pattern, s) ==
  {d \in ({0} \cup {k \in 1..Len(s) : s[k] = "/"}) \X (0..Len(s)) :
     LET i == d[1]
         j == d[2]
         e == i + j + Len(pattern.lit)
         rest == SubSeq(s, e + 1, Len(s))
     IN /\ e <= Len(s)
        /\ j = 0 \/ pattern.pre
        /\ FirstSlash(SubSeq(s, i + 1, i + j)) = 0
        /\ SubSeq(s, i + j + 1, e) = pattern.lit
        /\ IF pattern.child
           THEN /\ FirstSlash(rest) # 0
                /\ FirstSlash(rest) = 1 \/ pattern.post
           ELSE /\ FirstSlash(rest) = 0
                /\ rest = <<>> \/ pattern.post}

\* the groups of the match d
Groups(pattern, s, d) ==
  LET e == d[1] + d[2] + Len(pattern.lit)
      rest == SubSeq(s, e + 1, Len(s))
      p == IF FirstSlash(rest) = 0 THEN Len(rest) ELSE FirstSlash(rest) - 1
  IN [parent |-> SubSeq(s, 1, d[1]),
      pre |-> SubSeq(s, d[1] + 1, d[1] + d[2]),
      match |-> pattern.lit,
      post |-> SubSeq(rest, 1, p),
      name |-> SubSeq(s, d[1] + 1, e + p),
      child |-> SubSeq(rest, p + 1, Len(rest))]

\* the match re finds: the optional parent is tried before its absence, and
\* parent and pre are taken as short as they can be; a set of at most one
\* record of groups
Search(pattern, s) ==
  LET ds == Decompositions(pattern, s)
      rank(d) == IF d[1] = 0 THEN Len(s) + 1 ELSE d[1]
      before(c, d) == rank(c) < rank(d) \/ (rank(c) = rank(d) /\ c[2] <= d[2])
  IN {Groups(pattern, s, d) : d \in {c \in ds : \A x \in ds : before(c, x)}}

\* the template repl with the groups of a match put in; a group that took
\* no part in the match is the empty string
RECURSIVE Expand(_, _)
Expand(repl, g) ==
  IF repl = <<>> THEN <<>>
  ELSE (CASE Head(repl) = "\\g<parent>" -> g.parent
          [] Head(repl) = "\\g<name>" -> g.name
          [] Head(repl) = "\\g<pre>" -> g.pre
          [] Head(repl) = "\\g<match>" -> g.match
          [] Head(repl) = "\\g<post>" -> g.post
          [] Head(repl) = "\\g<child>" -> g.child
          [] OTHER -> <<Head(repl)>>) \o Expand(Tail(repl), g)

\* a substitution that puts the template in the place of the group match
\* and keeps the rest of the string
ApplyKeepingRest(rule, path) ==
  CHOOSE out \in {IF found = {} THEN path
                  ELSE LET g == CHOOSE m \in found : TRUE
                       IN g.parent \o g.pre \o Expand(rule.repl, g) \o g.post \o g.child :
                  found \in {Search(rule.pattern, path)}} : TRUE

\* SpecialRelativePath.__call__: pattern.sub(repl, str(path)); the pattern
\* starts with ^ and ends with $, so what is replaced is the whole string
Apply(rule, path) ==
  CHOOSE out \in {IF found = {} THEN path
                  ELSE Expand(rule.repl, CHOOSE m \in found : TRUE) :
                  found \in {Search(rule.pattern, path)}} : TRUE

(***************************************************************************)
(* ExperimentFilesBenchmark.from_experiment_files                          *)
(***************************************************************************)
\* the characters of a path segment
Spell(t) ==
  CASE t = "dir" -> <<"d", "i", "r">>
    [] t = "abc" -> <<"a", "b", "c">>
    [] t = "xabcy" -> <<"x", "a", "b", "c", "y">>
    [] t = "xxabcyy" -> <<"x", "x", "a", "b", "c", "y", "y">>
    [] t = "xabc" -> <<"x", "a", "b", "c">>
    [] t = "abcy" -> <<"a", "b", "c", "y">>
    [] t = "ifsdata" -> <<"i", "f", "s", "d", "a", "t", "a">>
    [] OTHER -> <<t>>

\* str(p) of an absolute path, character by character
RECURSIVE StrOf(_)
StrOf(p) ==
  IF p = <<>> THEN <<"/">>
  ELSE (IF Len(p) = 1 THEN <<>> ELSE StrOf(SubSeq(p, 1, Len(p) - 1)))
       \o <<"/">> \o Spell(p[Len(p)])

\* Path(s).name of the string of a path: what follows its last "/"
BaseName(s) ==
  LET at == {k \in 1..Len(s) : s[k] = "/"}
      last == IF at = {} THEN 0 ELSE CHOOSE k \in at : \A l \in at : l <= k
  IN SubSeq(s, last + 1, Len(s))

\* rundir/dest: an absolute dest takes the place of rundir
Join(rundir, dest) ==
  IF dest = <<>> THEN rundir
  ELSE IF dest[1] = "/" THEN dest
  ELSE rundir \o <<"/">> \o dest

\* a loop over the rules that goes on after a rule has changed the path
RECURSIVE RulesLoopNoBreak(_, _, _)
RulesLoopNoBreak(special_paths, dest, source) ==
  IF special_paths = <<>>
  THEN (IF dest = source THEN BaseName(dest) ELSE dest)
  ELSE RulesLoopNoBreak(Tail(special_paths), Apply(Head(special_paths), dest), source)

\* for pattern in special_paths: ... break ... else: the name of the file
RECURSIVE RulesLoop(_, _, _)
RulesLoop(special_paths, dest, source) ==
  IF special_paths = <<>> THEN BaseName(dest)
  ELSE CHOOSE d \in {IF out # source THEN out
                      ELSE RulesLoop(Tail(special_paths), out, source) :
                      out \in {Apply(Head(special_paths), dest)}} : TRUE

\* for f in exp_files.files, in the order the set is iterated: the list
\* input_files and the calls of copy_data or symlink_data
RECURSIVE PlaceLoop(_, _, _, _)
PlaceLoop(order, special_paths, rundir, copy) ==
  IF order = <<>> THEN [input_files |-> <<>>, placed |-> <<>>]
  ELSE CHOOSE r \in
         {[input_files |-> <<dest>> \o rest.input_files,
           placed |-> <<[fn |-> IF copy THEN "copy_data" ELSE "symlink_data",
                         source |-> StrOf(FullPath(Head(order))),
                         dest |-> Join(rundir, dest)]>> \o rest.placed] :
            dest \in {RulesLoop(special_paths, StrOf(FullPath(Head(order))),
                                StrOf(FullPath(Head(order))))},
            rest \in {PlaceLoop(Tail(order), special_paths, rundir, copy)}} : TRUE

\* cls.special_paths when it is a list or a tuple, () otherwise; the
\* attribute is the set of the list it holds, empty when it holds none
SpecialPaths(special_paths) ==
  IF special_paths = {} THEN <<>> ELSE CHOOSE l \in special_paths : TRUE

RunDir == <<"/", "r">>

\* ExperimentFilesBenchmark.from_experiment_files(rundir, exp_files, copy,
\* ifsdata) of a class whose special_paths is given; ifsdata is a set of at
\* most one string
FromExperimentFiles(special_paths, copy, ifsdata) ==
  \E order \in Orders(files) :
    \E r \in {PlaceLoop(order, SpecialPaths(special_paths), RunDir, copy)} :
       /\ rcall' = [op |-> "from_experiment_files",
                    special_paths |-> special_paths,
                    copy |-> copy,
                    order |-> order,
                    linked |-> {[fn |-> "symlink_data", source |-> i,
                                 dest |-> Join(RunDir, Spell("ifsdata"))] : i \in ifsdata},
                    placed |-> r.placed,
                    input_files |-> r.input_files]
       /\ UNCHANGED <<exp_id, src_dir, files, call, filevars, tarvars, othervars>>

\* rule(path) of a rule built by from_filename or from_dirname
RuleCall(kind, name, repl, match, path) ==
  LET rule == IF kind = "filename" THEN FromFilename(name, repl, match)
              ELSE FromDirname(name, repl, match)
  IN /\ rcall' = [op |-> "call", kind |-> kind, name |-> name, repl |-> repl,
                  match |-> match, path |-> path,
                  matched |-> Search(rule.pattern, path) # {},
                  ret |-> Apply(rule, path)]
     /\ UNCHANGED <<exp_id, src_dir, files, call, filevars, tarvars, othervars>>

\* the replacements the rules are built with; re takes a template only
\* when the pattern has every group the template names
OnlyMatch == <<"\\g<match>">>
UnderQ == <<"Q", "/", "\\g<name>">>
Same(kind) ==
  IF kind = "filename" THEN <<"\\g<parent>", "\\g<name>">>
  ELSE <<"\\g<parent>", "\\g<name>", "\\g<child>">>
MatchToQ(kind) ==
  IF kind = "filename" THEN <<"\\g<parent>", "\\g<pre>", "Q", "\\g<post>">>
  ELSE <<"\\g<parent>", "\\g<pre>", "Q", "\\g<post>", "\\g<child>">>
Templates(kind, match) ==
  {OnlyMatch, Same(kind)} \cup (IF match = FREE THEN {MatchToQ(kind)} ELSE {})

RulePaths ==
  {StrOf(<<"dir", "xabcy">>), StrOf(<<"dir", "xxabcyy">>), StrOf(<<"dir", "abc">>),
   StrOf(<<"dir", "abcy">>), StrOf(<<"dir", "xabc">>), StrOf(<<"dir", "f">>),
   StrOf(<<"dir", "abc", "f">>), StrOf(<<"dir", "xabcy", "f">>),
   StrOf(<<"abc", "abc">>), Spell("abc")}

\* the rule lists a benchmark class is given, and the property object of
\* the class that gives none
PlaceRules ==
  {FromFilename(Spell("abc"), UnderQ, EXACT),
   FromFilename(Spell("abc"), OnlyMatch, FREE),
   FromFilename(Spell("abc"), Same("filename"), FREE),
   FromDirname(Spell("abc"), <<"\\g<name>", "\\g<child>">>, FREE)}
RuleLists ==
  {{}} \cup {{<<>>}} \cup {{<<r>>} : r \in PlaceRules}
    \cup {{<<r, s>>} : r \in PlaceRules, s \in PlaceRules}

PlaceRegistries ==
  {{MkFile(<<"dir">>, <<"abc">>, "c1", 1), MkFile(<<"dir">>, <<"abc", "f">>, "c3", 2)},
   {MkFile(<<"dir">>, <<"f">>, "c1", 1), MkFile(<<"abc">>, <<"xabcy">>, "c2", 1)}}

InitRule ==
  /\ exp_id = "e1"
  /\ src_dir = <<>>
  /\ files \in PlaceRegistries
  /\ call = [op |-> "init", arg |-> src_dir, flag |-> FALSE, flag2 |-> FALSE,
             err |-> "none", ret |-> {}]
  /\ InitHeld
  /\ InitIdle

NextRule ==
  \/ \E kind \in {"filename", "dirname"}, match \in NameMatch, path \in RulePaths :
       \E repl \in Templates(kind, match) :
         RuleCall(kind, Spell("abc"), repl, match, path)
  \/ \E special_paths \in RuleLists, copy \in BOOLEAN, ifsdata \in {{}, {<<"/", "s">>}} :
       FromExperimentFiles(special_paths, copy, ifsdata)

SpecRule == InitRule /\ [][NextRule]_vars

(***************************************************************************)
(* Launcher (src/ifsbench/launch/launcher.py).  lrun is one launcher       *)
(* object and the call of launch under way on it: its class, for a         *)
(* BashLauncher the class of the launcher it wraps, the arguments, what    *)
(* lies at run_dir/path, the position in launch and the log of what has    *)
(* been called.  A command is a sequence of arguments and an argument is   *)
(* the sequence of its parts.                                              *)
(***************************************************************************)
\* Job: the attributes given, None for one that is not there
Jobs ==
  {[nodes |-> None, tasks |-> None, bind |-> None],
   [nodes |-> None, tasks |-> "4", bind |-> None],
   [nodes |-> "2", tasks |-> "4", bind |-> "BIND_CORES"]}

\* Launcher.get_options_from_job with the job_options_map of the class:
\* option.format(value) for the attributes of the job that are there
GetOptionsFromJob(class, job) ==
  LET Option(option, value) == IF value = None THEN <<>> ELSE << <<option, value>> >>
  IN IF class = "SrunLauncher"
     THEN Option("--nodes=", job.nodes) \o Option("--ntasks=", job.tasks)
     ELSE Option("-np ", job.tasks)

\* SrunLauncher.get_command and MpirunLauncher.get_command for a job that
\* asks for no distribution: the options of the job, the options of
\* bind_options_map when the job has a binding, the custom flags;
\* custom_flags is a set of at most one list
LaunchCommand(class, cmd, job, custom_flags) ==
  << <<IF class = "SrunLauncher" THEN "srun" ELSE "mpirun">> >>
    \o GetOptionsFromJob(class, job)
    \o (IF job.bind = None THEN <<>>
        ELSE IF class = "SrunLauncher" THEN << <<"--cpu-bind=cores">> >>
        ELSE << <<"--bind-to core">> >>)
    \o (IF custom_flags = {} THEN <<>> ELSE CHOOSE c \in custom_flags : TRUE)
    \o << <<"--">> >> \o cmd

\* self.get_command of the class of the launcher; BashLauncher.get_command
\* is /bin/bash -c with kwargs.get('script_path') as a string
GetCommand(l, kwargs) ==
  IF l.class = "BashLauncher"
  THEN << <<"/bin/bash">>, <<"-c">>,
          <<IF kwargs = {} THEN "None" ELSE CHOOSE p \in kwargs : TRUE>> >>
  ELSE LaunchCommand(l.class, l.cmd, l.job, l.custom_flags)

\* the path of the script: run_dir/path/run-<timestamp>.sh, resolved
ScriptPath == "/r/p/run-t.sh"

\* what pre_launch writes into the script after its first line: an export
\* line for each item of env, in which the key is the text ${key}, and the
\* command of the wrapped launcher, which is not given the custom flags
ScriptText(l) ==
  [exports |-> {<<"export ${key}=", e[2]>> : e \in l.env},
   command |-> LaunchCommand(l.inner, l.cmd, l.job, {})]

Logged(l, ev, cmd) == Append(l.log, [ev |-> ev, cmd |-> cmd])

\* launcher.launch(run_dir, cmd, job, env, custom_flags) is called, on a
\* launcher that is not launching; env is the set of its items
Launch(job, env, custom_flags) ==
  /\ lrun.pc \in {"idle", "done", "raised"}
  /\ lrun' = [lrun EXCEPT !.pc = "pre_launch", !.job = job, !.env = env,
                          !.custom_flags = custom_flags, !.pre_data = {},
                          !.kwargs = {}, !.command = <<>>, !.ran = {}, !.log = <<>>]
  /\ UNCHANGED <<regvars, filevars, tarvars, rulevars, fc, heap>>

\* Launcher.pre_launch: returns {}.  BashLauncher.pre_launch starts with
\* the pre_launch of the wrapped launcher
PreLaunch ==
  /\ lrun.pc = "pre_launch"
  /\ lrun' = IF lrun.class = "BashLauncher"
             THEN [lrun EXCEPT !.pc = "script_dir",
                               !.log = Logged([log |-> Logged(lrun, "pre_launch", <<>>)],
                                              "inner.pre_launch", <<>>)]
             ELSE [lrun EXCEPT !.pc = "get_command", !.pre_data = {},
                               !.log = Logged(lrun, "pre_launch", <<>>)]
  /\ UNCHANGED <<regvars, filevars, tarvars, rulevars, fc, heap>>

\* BashLauncher.pre_launch: a file at run_dir/path is unlinked and the
\* directory is made with its parents
MakeScriptDir ==
  /\ lrun.pc = "script_dir"
  /\ lrun' = [lrun EXCEPT !.pc = "write_script", !.script_dir = "dir",
                          !.log = IF lrun.script_dir = "file"
                                  THEN Logged(lrun, "unlink", <<>>)
                                  ELSE lrun.log]
  /\ UNCHANGED <<regvars, filevars, tarvars, rulevars, fc, heap>>

\* a pre_launch that returns the path of a script it has not written
WriteScriptNowhere ==
  /\ lrun.pc = "write_script"
  /\ lrun' = [lrun EXCEPT !.pc = "get_command",
                          !.pre_data = {ScriptPath}]
  /\ UNCHANGED <<regvars, filevars, tarvars, rulevars, fc, heap>>

\* BashLauncher.pre_launch: the script is written and its path returned
WriteScript ==
  /\ lrun.pc = "write_script"
  /\ lrun' = [lrun EXCEPT !.pc = "get_command",
                          !.scripts = [p \in {ScriptPath} |-> ScriptText(lrun)],
                          !.pre_data = {ScriptPath},
                          !.log = Logged(lrun, "write_script", ScriptText(lrun).command)]
  /\ UNCHANGED <<regvars, filevars, tarvars, rulevars, fc, heap>>

\* cmd = self.get_command(..., **kwargs, **pre_data)
BuildCommand ==
  /\ lrun.pc = "get_command"
  /\ lrun' = [lrun EXCEPT !.pc = "execute",
                          !.kwargs = lrun.pre_data,
                          !.command = GetCommand(lrun, lrun.pre_data),
                          !.log = Logged(lrun, "get_command", GetCommand(lrun, lrun.pre_data))]
  /\ UNCHANGED <<regvars, filevars, tarvars, rulevars, fc, heap>>

\* execute(command=cmd, cwd=run_dir, env=env): the command runs and
\* execute returns, or it raises and launch ends there
Execute(ok) ==
  /\ lrun.pc = "execute"
  /\ lrun' = [lrun EXCEPT !.pc = IF ok THEN "post_launch" ELSE "raised",
                          !.ran = {[command |-> lrun.command, cwd |-> "/r",
                                    scripts |-> DOMAIN lrun.scripts]},
                          !.log = Logged(lrun, "execute", lrun.command)]
  /\ UNCHANGED <<regvars, filevars, tarvars, rulevars, fc, heap>>

\* self.post_launch: Launcher.post_launch does nothing, BashLauncher's
\* calls the one of the wrapped launcher
PostLaunch ==
  /\ lrun.pc = "post_launch"
  /\ lrun' = [lrun EXCEPT !.pc = "done",
                          !.log = IF lrun.class = "BashLauncher"
                                  THEN Logged([log |-> Logged(lrun, "post_launch", <<>>)],
                                              "inner.post_launch", <<>>)
                                  ELSE Logged(lrun, "post_launch", <<>>)]
  /\ UNCHANGED <<regvars, filevars, tarvars, rulevars, fc, heap>>

\* a launcher of one of the three classes, a BashLauncher around one of
\* the other two, and what lies at run_dir/path: nothing, a file, or a
\* directory
InitLaunch ==
  /\ InitReg
  /\ src_dir = <<>>
  /\ InitHeld
  /\ fc = {}
  /\ tfs = [dirs |-> {}, files |-> <<>>, tars |-> <<>>, yamls |-> <<>>]
  /\ tcall = [op |-> "none"]
  /\ rcall = [op |-> "none"]
  /\ heap = [objs |-> <<>>, members |-> {}, rebased |-> <<>>]
  /\ \E class \in {"SrunLauncher", "MpirunLauncher", "BashLauncher"},
        inner \in {"SrunLauncher", "MpirunLauncher"},
        script_dir \in {"absent", "file", "dir"} :
       /\ class # "BashLauncher" => (inner = "SrunLauncher" /\ script_dir = "absent")
       /\ lrun = [pc |-> "idle", class |-> class, inner |-> inner,
                  cmd |-> << <<"ifsMASTER">> >>,
                  job |-> [nodes |-> None, tasks |-> None, bind |-> None],
                  env |-> {}, custom_flags |-> {}, script_dir |-> script_dir,
                  scripts |-> <<>>, pre_data |-> {}, kwargs |-> {}, command |-> <<>>,
                  ran |-> {}, log |-> <<>>]

NextLaunch ==
  \/ \E job \in Jobs, env \in {{}, {<<"K", "V">>}}, custom_flags \in {{}, {<< <<"--x">> >>}} :
       Launch(job, env, custom_flags)
  \/ PreLaunch
  \/ MakeScriptDir
  \/ WriteScript
  \/ BuildCommand
  \/ \E ok \in BOOLEAN : Execute(ok)
  \/ PostLaunch

SpecLaunch == InitLaunch /\ [][NextLaunch]_vars

(***************************************************************************)
(* Properties of InputFile, checked under SpecFile                         *)
(***************************************************************************)
\* the exceptions that stand for the error kinds of the specification
PathEscapesRoot == {"ValueError"}
NotFound == {"ValueError"}
ManifestMalformed == {"KeyError", "AssertionError"}
ChecksumMismatch == {"ValueError"}

\* C1: two files that both have a checksum are equal exactly when the
\* checksums are equal, whatever their paths; when one of them has no
\* checksum they are equal exactly when their absolute paths are equal
C1_EqByChecksumElsePath ==
  \A a \in fa, b \in fb :
    /\ (a.checksum # None /\ b.checksum # None)
         => (FileEq(a, b) <=> a.checksum = b.checksum)
    /\ (a.checksum = None \/ b.checksum = None)
         => (FileEq(a, b) <=> AbsStr(a.src_dir \o a.path) = AbsStr(b.src_dir \o b.path))

\* two files with the same checksum at different absolute paths are held
C1_Witness ==
  \E a \in fa, b \in fb :
    /\ a.checksum # None
    /\ a.checksum = b.checksum
    /\ a.src_dir \o a.path # b.src_dir \o b.path
    /\ FileEq(a, b)

\* C2: files that are equal have the same hash
C2_EqualFilesHashEqual ==
  \A a \in fa, b \in fb : FileEq(a, b) => FileHash(a) = FileHash(b)

\* sd is a leading part of path: path is sd or lies below it
LeadingPart(sd, path) == \E n \in 0..Len(path) : SubSeq(path, 1, n) = sd

\* C3 as stated: the constructor returns an object only for a path strictly
\* below src_dir, and fails with ValueError for every other path
C3_OnlyStrictDescendants ==
  fcall.op = "init" =>
    LET strict == LeadingPart(fcall.sd, fcall.path) /\ fcall.path # fcall.sd
    IN /\ fcall.err = "none" => strict
       /\ ~strict => (fcall.err \in PathEscapesRoot /\ fcall.ret = {})

\* C3 as amended: the constructor fails with ValueError and returns no
\* object for every path that is neither src_dir nor below it; an object it
\* returns lies at the path given; src_dir itself passes the check, and with
\* compute_metadata off it is returned as a file with the relative path "."
C3_OnlyDescendantsOrRoot ==
  fcall.op = "init" =>
    /\ ~LeadingPart(fcall.sd, fcall.path) => (fcall.err \in PathEscapesRoot /\ fcall.ret = {})
    /\ fcall.err = "none" =>
         /\ LeadingPart(fcall.sd, fcall.path)
         /\ \E o \in fcall.ret : o.src_dir = fcall.sd /\ o.src_dir \o o.path = fcall.path
    /\ (fcall.path = fcall.sd /\ ~fcall.flag) =>
         (fcall.err = "none" /\ \E o \in fcall.ret : o.path = <<>>)

\* the constructor refused a path outside src_dir
C3_Witness ==
  /\ fcall.op = "init"
  /\ ~LeadingPart(fcall.sd, fcall.path)
  /\ fcall.err = "ValueError"
  /\ fcall.ret = {}

\* C9: decoding f.to_dict() against f.src_dir without verification returns a
\* file with the relative path, the checksum and the size of f
C9_EntryRoundTrip ==
  \A f \in fcall.src :
    (fcall.op = "from_dict" /\ ~fcall.flag /\ fcall.sd = f.src_dir) =>
      /\ fcall.err = "none"
      /\ \E o \in fcall.ret : o.path = f.path /\ o.checksum = f.checksum /\ o.size = f.size

\* C10: decoding a dict that has no key, or more than one, fails with
\* KeyError or AssertionError and returns nothing, for an entry and for a
\* manifest
C10_NotOneKeyIsMalformed ==
  (fcall.op \in {"from_dict", "reg_from_dict"} /\ Len(fcall.data) # 1) =>
    (fcall.err \in ManifestMalformed /\ fcall.ret = {})

\* an entry with two keys was refused
C10_Witness ==
  /\ fcall.op = "from_dict"
  /\ Len(fcall.data) = 2
  /\ fcall.err = "AssertionError"
  /\ fcall.ret = {}

\* the checksum and the size stored in an entry, unset when it has none
StoredSum(meta) == IF "sha256sum" \in DOMAIN meta THEN meta.sha256sum ELSE None
StoredSize(meta) == IF "size" \in DOMAIN meta THEN meta.size ELSE NoSize

\* C11: from_dict of one entry with verify_checksum fails with ValueError
\* whenever the checksum of the file on disk differs from the stored one,
\* and otherwise returns a file with the checksum of the file on disk;
\* without verify_checksum it succeeds whether or not the file is on disk
\* and returns a file with exactly the stored checksum and size, unset when
\* the entry has none
C11_VerifyOrTrust ==
  (fcall.op = "from_dict" /\ Len(fcall.data) = 1) =>
    LET meta == fcall.data[1][2]
        p == ParsePath(meta.fullpath)
    IN IF fcall.flag
       THEN (LeadingPart(fcall.sd, p) /\ p \in DOMAIN Disk) =>
              IF Disk[p].sum # StoredSum(meta)
              THEN fcall.err \in ChecksumMismatch /\ fcall.ret = {}
              ELSE fcall.err = "none" /\ \E o \in fcall.ret : o.checksum = Disk[p].sum
       ELSE LeadingPart(fcall.sd, p) =>
              /\ fcall.err = "none"
              /\ \E o \in fcall.ret :
                   o.checksum = StoredSum(meta) /\ o.size = StoredSize(meta)

\* C28: the equality of InputFile is an equivalence over files with and
\* without a checksum: a == a, a == b exactly when b == a, and a == b and
\* b == c give a == c
C28_EqIsEquivalence ==
  fcall.op = "eq" =>
    /\ fcall.aa
    /\ fcall.ab <=> fcall.ba
    /\ (fcall.ab /\ fcall.bc) => fcall.ac

(***************************************************************************)
(* Properties of ExperimentFiles, checked under Spec                       *)
(***************************************************************************)
\* a regular file below root has the base name and the checksum of f
HasMatchUnder(f, root) ==
  \E p \in DOMAIN Disk :
    /\ LeadingPart(root, p)
    /\ p # root
    /\ p[Len(p)] = f.path[Len(f.path)]
    /\ Disk[p].sum = f.checksum

\* the candidates the last add_file or add_input_file rebased, in order
Candidates ==
  IF call.op = "add_input_file" THEN call.arg
  ELSE [k \in 1..Len(call.arg) |->
          IF call.flag
          THEN MkFile(<<>>, call.arg[k], Disk[call.arg[k]].sum, Disk[call.arg[k]].size)
          ELSE MkFile(<<>>, call.arg[k], None, NoSize)]

\* C4: the file an add inserts has as src_dir the earliest of the configured
\* roots that holds a file with its base name and its checksum
C4_EarliestRootWins ==
  (call.op \in {"add_file", "add_input_file"} /\ call.err = "none") =>
    \A g \in call.ret :
      \A i \in 1..Len(src_dir) :
        (HasMatchUnder(g, src_dir[i]) /\ \A j \in 1..(i - 1) : ~HasMatchUnder(g, src_dir[j]))
          => g.src_dir = src_dir[i]

\* with A listed before B and the same x under both, add_file of B's x
\* inserted the x of A
C4_Witness ==
  /\ call.op = "add_file"
  /\ call.err = "none"
  /\ src_dir = <<DirA, DirB>>
  /\ call.arg = << <<"B", "x">> >>
  /\ call.ret = {MkFile(DirA, <<"x">>, "c1", 0)}
  /\ MkFile(DirA, <<"x">>, "c1", 0) \in files

\* C5: with roots configured and no file of a candidate's base name and
\* checksum under any of them, an add that verifies fails with ValueError
\* and returns no file, and an add that does not verify returns the
\* candidate itself
C5_NoMatchRaisesOrKeeps ==
  (call.op \in {"add_file", "add_input_file"} /\ src_dir # <<>>) =>
    LET cands == Candidates
        nomatch(k) == \A i \in 1..Len(src_dir) : ~HasMatchUnder(cands[k], src_dir[i])
    IN /\ (call.flag /\ \E k \in 1..Len(cands) : nomatch(k))
            => (call.err \in NotFound /\ call.ret = {})
       /\ (~call.flag /\ nomatch(Len(cands)))
            => (call.err = "none" /\ call.ret = {cands[Len(cands)]})

\* an add_input_file that does not verify kept a candidate with a stale
\* checksum as it was
C5_Witness ==
  /\ call.op = "add_input_file"
  /\ ~call.flag
  /\ src_dir # <<>>
  /\ call.err = "none"
  /\ call.ret = {MkFile(DirA, <<"x">>, StaleSum, 1)}
  /\ MkFile(DirA, <<"x">>, StaleSum, 1) \in files

\* C6: an update_srcdir that fails leaves src_dir and files as they were
C6_FailedUpdateChangesNothing ==
  [][(call'.op = "update_srcdir" /\ call'.err # "none")
       => (src_dir' = src_dir /\ files' = files)]_vars

\* the files update_srcdir rebases
Scope(with_ifsdata) == IF with_ifsdata THEN files ELSE ExpFiles(files)

\* some file in the scope has no match under any of the new roots
SomeUnmatched(new_src_dir, with_ifsdata) ==
  \E f \in Scope(with_ifsdata) :
    \A i \in 1..Len(new_src_dir) : ~HasMatchUnder(f, new_src_dir[i])

\* C7 as stated: update_srcdir with update_files fails with ValueError
\* whenever a file in its scope has no match under the new roots
C7_UnmatchedAlwaysRaises ==
  [][(call'.op = "update_srcdir" /\ call'.flag /\ SomeUnmatched(call'.arg, call'.flag2))
       => call'.err \in NotFound]_vars

\* C7 as amended: with new roots given it fails with ValueError whenever a
\* file in its scope has no match under them; with no new roots it succeeds
\* and keeps every file as it is; and when it succeeds every file it had is
\* still there, itself or as the match with its base name and checksum
C7_NoFileDropped ==
  [][(call'.op = "update_srcdir" /\ call'.flag) =>
       /\ (call'.arg # <<>> /\ SomeUnmatched(call'.arg, call'.flag2))
            => call'.err \in NotFound
       /\ call'.arg = <<>> => (call'.err = "none" /\ files' = files)
       /\ call'.err = "none" =>
            \A f \in files :
              \E g \in files' :
                \/ g = f
                \/ /\ g.checksum = f.checksum
                   /\ g.checksum # None
                   /\ g.path[Len(g.path)] = f.path[Len(f.path)]]_vars

\* an update_srcdir to roots that lack a tracked file failed and the file is
\* still tracked
C7_Witness ==
  /\ call.op = "update_srcdir"
  /\ call.flag
  /\ call.err = "ValueError"
  /\ src_dir = <<DirA>>
  /\ MkFile(DirB, <<"s", "x">>, "c2", 1) \in files

\* C8: from_dict of to_dict without verification returns a registry with
\* the exp_id, the src_dir and the files of the registry
C8_ManifestRoundTrip ==
  (call.op = "reload" /\ ~call.flag) =>
    /\ call.err = "none"
    /\ call.ret = {[exp_id |-> exp_id, src_dir |-> src_dir, files |-> files]}

\* C21: the files of a registry are a set under the equality of InputFile:
\* after any add_file, add_input_file or update_srcdir no two different
\* members are equal, and adding a file equal to a member leaves the files
\* as they were
C21_NoEqualMembers ==
  [][/\ \A a \in files', b \in files' : FileEq(a, b) => a = b
     /\ (call'.op \in {"add_file", "add_input_file"} /\ call'.err = "none"
         /\ \E g \in call'.ret, f \in files : FileEq(g, f) /\ Len(call'.arg) = 1)
          => files' = files]_vars

\* C23: update_srcdir with update_files and without with_ifsdata rebases
\* the experiment files only: every ifsdata file it had is still a member,
\* with the src_dir and the path it had; without update_files the files are
\* left as they are and src_dir is the new one
C23_IfsdataLeftAlone ==
  [][call'.op = "update_srcdir" =>
       /\ (call'.flag /\ ~call'.flag2) =>
            /\ IfsdataFiles(files) \subseteq files'
            /\ call'.err = "none" =>
                 \A g \in files' \ IfsdataFiles(files) :
                   \E f \in ExpFiles(files) :
                     g = f \/ (g.checksum = f.checksum /\ g.checksum # None)
       /\ ~call'.flag => (files' = files /\ src_dir' = call'.arg)]_vars

\* an update to the root A rebased the x of B and left the ifsdata file z,
\* which lies below A as well, with the root it had
C23_Witness ==
  /\ call.op = "update_srcdir"
  /\ call.flag
  /\ ~call.flag2
  /\ call.err = "none"
  /\ src_dir = <<DirA>>
  /\ MkFile(<<>>, <<"A", "ifsdata", "z">>, "c3", 2) \in files
  /\ MkFile(DirA, <<"x">>, "c1", 0) \in files

\* C24: on a registry without roots add_file and add_input_file never fail
\* with ValueError, whether or not they verify: each candidate is added as
\* it is, for add_file with "/" as its src_dir, and is a member afterwards
\* unless a member equal to it with its hash stands for it
C24_NoRootsKeepsCandidate ==
  (call.op \in {"add_file", "add_input_file"} /\ src_dir = <<>>) =>
    /\ call.err = "none"
    /\ call.ret = {Candidates[Len(Candidates)]}
    /\ \A k \in 1..Len(Candidates) :
         /\ call.op = "add_file" => Candidates[k].src_dir = <<>>
         /\ \E g \in files :
              \/ g = Candidates[k]
              \/ FileEq(g, Candidates[k]) /\ FileHash(g) = FileHash(Candidates[k])

\* an add_input_file that verifies added a file whose checksum no file on
\* disk has
C24_Witness ==
  /\ call.op = "add_input_file"
  /\ call.flag
  /\ src_dir = <<>>
  /\ call.err = "none"
  /\ MkFile(DirA, <<"x">>, StaleSum, 1) \in files

\* C26: add_file without compute_metadata on a registry with roots never
\* rebases and never fails with ValueError: what it adds is the file as
\* constructed, with "/" as src_dir and neither checksum nor size, also
\* when the file lies below a root
C26_NoMetadataNoRebase ==
  (call.op = "add_file" /\ ~call.flag /\ src_dir # <<>>) =>
    /\ call.err = "none"
    /\ call.ret = {MkFile(<<>>, call.arg[Len(call.arg)], None, NoSize)}
    /\ \A k \in 1..Len(call.arg) :
         \E g \in files :
           /\ g.src_dir \o g.path = call.arg[k]
           /\ g.checksum = None
           /\ g = MkFile(<<>>, call.arg[k], None, NoSize)
                \/ FileHash(g) = FileHash(MkFile(<<>>, call.arg[k], None, NoSize))

\* the x of A was added without metadata to a registry with the root A
C26_Witness ==
  /\ call.op = "add_file"
  /\ ~call.flag
  /\ src_dir = <<DirA>>
  /\ call.arg = << <<"A", "x">> >>
  /\ call.err = "none"
  /\ MkFile(<<>>, <<"A", "x">>, None, NoSize) \in files

\* C27: an update_srcdir with update_files that succeeds on a registry
\* whose files all have a checksum leaves the set of checksums and the
\* number of files as they were
C27_ChecksumsPreserved ==
  [][(call'.op = "update_srcdir" /\ call'.flag /\ call'.err = "none"
      /\ \A f \in files : f.checksum # None) =>
       /\ {f.checksum : f \in files'} = {f.checksum : f \in files}
       /\ Cardinality(files') = Cardinality(files)]_vars

\* an update to the roots B, A moved two files with checksums below them
C27_Witness ==
  /\ call.op = "update_srcdir"
  /\ call.flag
  /\ call.err = "none"
  /\ src_dir = <<DirB, DirA>>
  /\ files = {MkFile(DirB, <<"x">>, "c1", 0), MkFile(DirB, <<"s", "x">>, "c2", 1)}

(***************************************************************************)
(* Properties of the objects of a registry, checked under SpecObj          *)
(***************************************************************************)
\* the object in was handed to a rebase that found a match for it under
\* the roots
MatchFound(objs, in, roots) ==
  \E i \in 1..Len(roots) : objs[in].checksum # None /\ HasMatchUnder(objs[in], roots[i])

\* C22: no add_file, add_input_file or update_srcdir changes the src_dir,
\* the path, the checksum or the size of an InputFile object that exists;
\* a rebase that finds a match returns another object, made by it, and
\* update_srcdir puts that object into the files in the place of the old
\* one
C22_NoObjectMutated ==
  [][/\ Len(heap'.objs) >= Len(heap.objs)
     /\ \A id \in 1..Len(heap.objs) : heap'.objs[id] = heap.objs[id]
     /\ \A k \in 1..Len(heap'.rebased) :
          LET in == heap'.rebased[k][1]
              out == heap'.rebased[k][2]
          IN MatchFound(heap'.objs, in, src_dir') =>
               /\ out # in
               /\ out > Len(heap.objs)
               /\ (call'.op = "update_srcdir" /\ call'.err = "none") =>
                    (in \notin heap'.members /\ out \in heap'.members)]_vars

\* an update_srcdir has put a new object below another root in the place
\* of a member, and the old object is as it was
C22_Witness ==
  /\ call.op = "update_srcdir"
  /\ call.err = "none"
  /\ \E k \in 1..Len(heap.rebased) :
       LET in == heap.rebased[k][1]
           out == heap.rebased[k][2]
       IN /\ in # out
          /\ in \notin heap.members
          /\ out \in heap.members
          /\ heap.objs[in].src_dir # heap.objs[out].src_dir
          /\ heap.objs[in].checksum = heap.objs[out].checksum

(***************************************************************************)
(* Properties of to_tarball and from_tarball, checked under SpecTar        *)
(***************************************************************************)
ArchiveMissing == {"ValueError"}

\* the experiment files: the files with no "/ifsdata/" in their full path
Specific(fs) == {f \in fs : ~IsIfsdata(f)}

\* the name of the archive of a root, as ".tar.gz" added to its final
\* segment, "other" when it has none
RootArchive(root) ==
  (IF root = <<>> THEN <<"other">> ELSE NameParts(root[Len(root)])) \o <<"tar", "gz">>

\* C12: to_tarball writes for every source root of an experiment file an
\* archive of its own, named after the final segment of the root, that holds
\* exactly the relative paths of the experiment files of that root with the
\* content they have under the root; the number of archives written is the
\* number of roots
C12_OneArchivePerRoot ==
  (tcall.op = "to_tarball" /\ tcall.err = "none") =>
    LET roots == {f.src_dir : f \in Specific(files)}
        written == {tcall.created[i] : i \in 1..Len(tcall.created)}
                     \ {<<tcall.output_dir, <<"ifsdata", "tar", "gz">>>>}
    IN /\ Cardinality(written) = Cardinality(roots)
       /\ \A root \in roots :
            LET key == <<tcall.output_dir, RootArchive(root)>>
            IN /\ key \in written
               /\ key \in DOMAIN tfs.tars
               /\ DOMAIN tfs.tars[key] = {f.path : f \in {g \in Specific(files) : g.src_dir = root}}
               /\ \A m \in DOMAIN tfs.tars[key] : tfs.tars[key][m] = InputData[root \o m]

\* an archive called name.tar.gz lies in one of the directories or below
\* it; from_tarball writes no archive, so this is as it was before the call
ArchiveUnder(name, input_dir) ==
  \E k \in DOMAIN tfs.tars :
    /\ k[2] = NameParts(name) \o <<"tar", "gz">>
    /\ \E i \in 1..Len(input_dir) : LeadingPart(input_dir[i], k[1])

\* the final segments of the roots of the experiment files of a manifest
RootNames(obj) ==
  {IF f.src_dir = <<>> THEN "" ELSE f.src_dir[Len(f.src_dir)] : f \in Specific(obj.files)}

\* C13: from_tarball fails with ValueError, before it extracts anything,
\* whenever for the root name of some experiment file of the manifest no
\* archive of that name lies in or below any search directory; when there is
\* one for every name, at whatever depth, it does not fail so and has found
\* for every name an archive of that name in or below a search directory
C13_MissingArchiveRaises ==
  tcall.op = "from_tarball" =>
    \A obj \in tcall.loaded :
      /\ (\E n \in RootNames(obj) : ~ArchiveUnder(n, tcall.args.input_dir))
           => /\ tcall.err \in ArchiveMissing
              /\ tcall.msg = "Archive not found in input directories"
              /\ tcall.tarballs = {}
              /\ tcall.saved = {}
              /\ tcall.ret = {}
      /\ (\A n \in RootNames(obj) : ArchiveUnder(n, tcall.args.input_dir))
           => /\ tcall.msg # "Archive not found in input directories"
              /\ \A n \in RootNames(obj) :
                   \E k \in tcall.tarballs :
                     /\ k \in DOMAIN tfs.tars
                     /\ k[2] = NameParts(n) \o <<"tar", "gz">>
                     /\ \E i \in 1..Len(tcall.args.input_dir) :
                          LeadingPart(tcall.args.input_dir[i], k[1])

\* an archive that lies only in a subdirectory of the search directory was
\* found
C13_Witness ==
  /\ tcall.op = "from_tarball"
  /\ tcall.args.input_dir = <<DirT>>
  /\ tcall.tarballs = {<<DirTSub, <<"d", "tar", "gz">>>>}
  /\ <<DirT, <<"d", "tar", "gz">>>> \notin DOMAIN tfs.tars
  /\ tcall.err = "none"

\* the directory the experiment archives are extracted into, and the one
\* for ifsdata.tar.gz
OutputDir(obj) == tcall.args.output_dir \o <<obj.exp_id>>
IfsdataDir(obj) ==
  IF tcall.args.ifsdata_dir = {} THEN OutputDir(obj)
  ELSE CHOOSE d \in tcall.args.ifsdata_dir : TRUE

\* a regular file below one of the two directories has the base name and
\* the checksum of f; from_tarball writes no regular file after it has
\* extracted the archives
ExtractedMatch(f, obj) ==
  \E p \in DOMAIN tfs.files :
    /\ \E root \in {OutputDir(obj), IfsdataDir(obj)} : LeadingPart(root, p) /\ p # root
    /\ p[Len(p)] = f.path[Len(f.path)]
    /\ tfs.files[p].sum = f.checksum

\* C14 as stated: whatever its arguments, a from_tarball that returns has
\* found for every entry of the manifest an extracted file with its base name
\* and checksum and returns every entry rebased to the output directory or
\* the ifsdata directory, and a manifest is written only by a call that
\* returns
C14_AlwaysRebased ==
  tcall.op = "from_tarball" =>
    \A obj \in tcall.loaded :
      /\ tcall.err = "none" =>
           /\ \A f \in obj.files : ExtractedMatch(f, obj)
           /\ \A r \in tcall.ret : \A g \in r.files :
                g.src_dir \in {OutputDir(obj), IfsdataDir(obj)}
      /\ tcall.saved # {} => tcall.err = "none"

\* C14 as amended: with verify_checksum a from_tarball that has extracted
\* the archives rebases every entry of the manifest to the directories
\* <<output_dir/exp_id, ifsdata_dir>> and fails with ValueError, writing no
\* manifest, when some entry has no file with its base name and checksum
\* below them; without verify_checksum nothing is rebased and the entries are
\* returned as the manifest has them; a manifest is written only by a call
\* that returns, and it is the to_dict of the registry returned
C14_RebasedWhenVerifying ==
  tcall.op = "from_tarball" =>
    \A obj \in tcall.loaded :
      /\ tcall.args.verify_checksum =>
           /\ tcall.err = "none" =>
                /\ tcall.rebased
                /\ \A f \in obj.files : ExtractedMatch(f, obj)
                /\ \A r \in tcall.ret :
                     /\ r.src_dir = <<OutputDir(obj), IfsdataDir(obj)>>
                     /\ \A g \in r.files :
                          /\ g.src_dir \in {OutputDir(obj), IfsdataDir(obj)}
                          /\ (g.src_dir \o g.path) \in DOMAIN tfs.files
                          /\ tfs.files[g.src_dir \o g.path].sum = g.checksum
                     /\ \A f \in obj.files : \E g \in r.files :
                          g.checksum = f.checksum /\ g.path[Len(g.path)] = f.path[Len(f.path)]
           /\ (tcall.rebased /\ \E f \in obj.files : ~ExtractedMatch(f, obj)) =>
                (tcall.err \in NotFound /\ tcall.saved = {} /\ tcall.ret = {})
      /\ ~tcall.args.verify_checksum =>
           /\ ~tcall.rebased
           /\ tcall.err = "none" => tcall.ret = {obj}
      /\ \A p \in tcall.saved :
           /\ tcall.err = "none"
           /\ p \in DOMAIN tfs.yamls
           /\ \E r \in tcall.ret : \E o \in Orders(r.files) :
                tfs.yamls[p] = RegToDict(r.exp_id, o)

\* a from_tarball that verifies extracted an archive, found no file for an
\* entry of the manifest, failed and wrote no manifest
C14_Witness ==
  /\ tcall.op = "from_tarball"
  /\ tcall.args.verify_checksum
  /\ tcall.tarballs # {}
  /\ tcall.rebased
  /\ \E obj \in tcall.loaded : \E f \in obj.files : ~ExtractedMatch(f, obj)
  /\ tcall.err = "ValueError"
  /\ tcall.saved = {}

\* C15: a from_tarball that has found its archives does not fail with
\* FileNotFoundError, leaves output_dir in place as a directory, made if it
\* was not there, and has written every member of every archive found below
\* output_dir itself
C15_ExtractsIntoOutputDir ==
  (/\ tcall.op = "from_tarball"
   /\ tcall.tarballs # {}
   /\ tcall.msg # "ifsdata.tar.gz not found in any experiment tarball directory") =>
    /\ tcall.err # "FileNotFoundError"
    /\ tcall.args.output_dir \in tfs.dirs
    /\ \A k \in tcall.tarballs : \A m \in DOMAIN tfs.tars[k] :
         (tcall.args.output_dir \o m) \in DOMAIN tfs.files

\* the members of the ifsdata archive found lie below dir
IfsdataExtracted(dir) ==
  \A k \in tcall.ifsdata : \A m \in DOMAIN tfs.tars[k] :
    /\ (dir \o m) \in DOMAIN tfs.files
    /\ tfs.files[dir \o m] = tfs.tars[k][m]

Beside == {<<k[1], <<"ifsdata", "tar", "gz">>>> : k \in tcall.tarballs} \cap DOMAIN tfs.tars
Direct ==
  {i \in 1..Len(tcall.args.input_dir) :
     <<tcall.args.input_dir[i], <<"ifsdata", "tar", "gz">>>> \in DOMAIN tfs.tars}

SegmentsOf(s) ==
  LET cuts == {0, Len(s) + 1} \cup {k \in 1..Len(s) : s[k] = "/"}
  IN {c \in cuts \X cuts : c[1] < c[2] /\ \A k \in cuts : k <= c[1] \/ c[2] <= k}
SegmentText(s, c) == SubSeq(s, c[1] + 1, c[2] - 1)
IsFinalSegment(s, c) == c[2] = Len(s) + 1

\* t is part of s
Contains(s, t) == \E i \in 0..(Len(s) - Len(t)) : SubSeq(s, i + 1, i + Len(t)) = t

\* the segment seg bears the name as the matching mode asks
SegmentMatches(seg, name, match) ==
  CASE match = EXACT -> seg = name
    [] match = LEFT_ALIGNED ->
         Len(name) <= Len(seg) /\ SubSeq(seg, 1, Len(name)) = name
    [] match = RIGHT_ALIGNED ->
         Len(name) <= Len(seg) /\ SubSeq(seg, Len(seg) - Len(name) + 1, Len(seg)) = name
    [] match = FREE -> Contains(seg, name)

FreeOnlyMatchCall ==
  /\ rcall.op = "call"
  /\ rcall.kind = "filename"
  /\ rcall.match = FREE
  /\ rcall.name = Spell("abc")
  /\ rcall.repl = OnlyMatch
  /\ rcall.path = StrOf(<<"dir", "xxabcyy">>)

\* C18: the FREE filename rule for abc whose replacement names the group
\* match alone, on /dir/xxabcyy, replaces the part abc only: the xx before
\* it, the yy after it and the rest of the path are still in the result
C18_OnlyMatchPortionReplaced ==
  FreeOnlyMatchCall =>
    /\ Contains(rcall.ret, <<"x", "x">> \o Spell("abc") \o <<"y", "y">>)
    /\ Contains(rcall.ret, <<"/">> \o Spell("dir") \o <<"/">>)

\* C18, amended: a filename rule that matches replaces the whole path by
\* its replacement: a replacement that names the group match alone leaves
\* the name and nothing else (abc for /dir/xxabcyy), and the parts around
\* the match stay only when the replacement names them: the replacement
\* parent, name gives the path back, and parent, pre, Q, post gives the path
\* with Q in the place of one abc of its final segment
C18_WholePathReplaced ==
  (rcall.op = "call" /\ rcall.kind = "filename" /\ rcall.matched) =>
    /\ rcall.repl = OnlyMatch => rcall.ret = rcall.name
    /\ rcall.repl = Same("filename") => rcall.ret = rcall.path
    /\ rcall.repl = MatchToQ("filename") =>
         \E i \in 0..(Len(rcall.path) - Len(rcall.name)) :
           /\ SubSeq(rcall.path, i + 1, i + Len(rcall.name)) = rcall.name
           /\ rcall.ret = SubSeq(rcall.path, 1, i) \o <<"Q">>
                            \o SubSeq(rcall.path, i + Len(rcall.name) + 1, Len(rcall.path))

C18_Witness ==
  /\ FreeOnlyMatchCall
  /\ rcall.matched
  /\ rcall.ret = Spell("abc")

\* C19: a rule built by from_dirname, in every matching mode, matches
\* exactly when a segment that bears the name is followed by a child path;
\* on a path that bears the name in its final segment only it does not
\* match and gives the path back.  A rule built by from_filename matches
\* exactly when the final segment bears the name
C19_DirnameNeedsChild ==
  rcall.op = "call" =>
    LET bearing == {c \in SegmentsOf(rcall.path) :
                      SegmentMatches(SegmentText(rcall.path, c), rcall.name, rcall.match)}
        inner == {c \in bearing : ~IsFinalSegment(rcall.path, c)}
    IN /\ rcall.kind = "dirname" => (rcall.matched <=> inner # {})
       /\ (rcall.kind = "dirname" /\ inner = {}) => rcall.ret = rcall.path
       /\ rcall.kind = "filename" =>
            (rcall.matched <=> \E c \in bearing : IsFinalSegment(rcall.path, c))

C19_Witness ==
  /\ rcall.op = "call"
  /\ rcall.kind = "dirname"
  /\ rcall.path = StrOf(<<"dir", "abc">>)
  /\ ~rcall.matched
  /\ rcall.ret = rcall.path

\* the places in the list rules of the rules whose output for source is
\* not source
Changing(rules, source) == {i \in 1..Len(rules) : Apply(rules[i], source) # source}

\* C20: from_experiment_files gives one destination for each file of the
\* registry: the output of the first rule of the list whose output is not
\* the absolute path of the file, to which no later rule is applied, and
\* the name of the file alone when no rule changes the path
C20_FirstChangingRuleWins ==
  rcall.op = "from_experiment_files" =>
    LET rules == SpecialPaths(rcall.special_paths)
    IN /\ Len(rcall.input_files) = Cardinality(files)
       /\ Len(rcall.placed) = Cardinality(files)
       /\ {rcall.order[k] : k \in 1..Len(rcall.order)} = files
       /\ \A k \in 1..Len(rcall.input_files) :
            LET source == StrOf(FullPath(rcall.order[k]))
                changing == Changing(rules, source)
            IN /\ rcall.input_files[k] =
                    IF changing = {} THEN BaseName(source)
                    ELSE Apply(rules[CHOOSE i \in changing : \A j \in changing : i <= j],
                               source)
               /\ rcall.placed[k].source = source
               /\ rcall.placed[k].dest = Join(RunDir, rcall.input_files[k])

\* a file two rules of the list would change, each in its own way, has the
\* destination the first of them gives
C20_Witness ==
  /\ rcall.op = "from_experiment_files"
  /\ \E k \in 1..Len(rcall.input_files) :
       LET rules == SpecialPaths(rcall.special_paths)
           source == StrOf(FullPath(rcall.order[k]))
       IN /\ Changing(rules, source) = {1, 2}
          /\ Apply(rules[1], source) # Apply(rules[2], source)
          /\ rcall.input_files[k] = Apply(rules[1], source)

(***************************************************************************)
(* Properties of launch, checked under SpecLaunch                          *)
(***************************************************************************)
\* the places in the log of the calls of ev
Pos(ev) == {i \in 1..Len(lrun.log) : lrun.log[i].ev = ev}

\* every call of b has a call of a before it
Precedes(a, b) == \A j \in Pos(b) : \E i \in Pos(a) : i < j

\* C25: launch calls pre_launch first, then get_command, which is given
\* what pre_launch returned, then executes the command get_command returned
\* in run_dir, and calls post_launch last, never before the command has
\* been executed; a BashLauncher calls the pre_launch of the launcher it
\* wraps before it writes the script, and the script is there when the
\* command that runs it is executed
C25_LaunchOrder ==
  /\ lrun.log # <<>> => lrun.log[1].ev = "pre_launch"
  /\ Precedes("pre_launch", "get_command")
  /\ Precedes("get_command", "execute")
  /\ Precedes("execute", "post_launch")
  /\ Pos("get_command") # {} => lrun.kwargs = lrun.pre_data
  /\ \A i \in Pos("execute"), j \in Pos("get_command") : lrun.log[i].cmd = lrun.log[j].cmd
  /\ \A r \in lrun.ran : r.cwd = "/r"
  /\ lrun.pc = "done" =>
       /\ Pos("post_launch") # {}
       /\ \A i \in 1..Len(lrun.log) :
            (\E j \in Pos("post_launch") : j < i) => lrun.log[i].ev = "inner.post_launch"
  /\ lrun.pc # "none" /\ lrun.class = "BashLauncher" =>
       /\ Precedes("inner.pre_launch", "write_script")
       /\ Precedes("write_script", "execute")
       /\ \A r \in lrun.ran :
            /\ r.command = << <<"/bin/bash">>, <<"-c">>, <<ScriptPath>> >>
            /\ ScriptPath \in r.scripts

\* a BashLauncher has gone through launch to its end
C25_Witness ==
  /\ lrun.pc = "done"
  /\ lrun.class = "BashLauncher"
  /\ lrun.ran # {}
  /\ lrun.script_dir = "dir"
  /\ Pos("inner.post_launch") # {}

====
